---- MODULE Spec2Model ----
(***************************************************************************)
(* fastformat: domain values (Image, BBox, LaserScan2D, ImageInVideo),     *)
(* their Arrow union encoding and the owned / borrowed decoders.           *)
(*                                                                         *)
(* Memory is a heap of buffers named by their address; a domain value      *)
(* holds its payload as a Cow: an address plus the Owned/Borrowed flag.    *)
(* Strings are sequences of UTF-8 bytes, u32 values are pairs of 16-bit    *)
(* limbs <<hi, lo>>, f32 values are the integers they represent.           *)
(* A buffer's identity is its allocation: the allocator hands out the     *)
(* lowest free address, and the pointer value of a zero-length vector,     *)
(* which owns no allocation, is not modelled.                              *)
(***************************************************************************)
EXTENDS Integers, Sequences, FiniteSets, TLC

\* ---------------------------------------------------------------- bounds
MaxLen == 6          \* longest pixel vector handed to a constructor
NumAddrs == 4        \* heap addresses
MaxBoxes == 2        \* boxes in one BBox
MaxConv == 2         \* conversions applied to one value

\* --------------------------------------------------------------- results
Ok(v) == [tag |-> "Ok", v |-> v]

Err(m) == [tag |-> "Err", v |-> m]

Panic(m) == [tag |-> "Panic", v |-> m]

\* the ? operator: continue with F on Ok, return the failure otherwise
Then(r, F(_)) == IF r.tag = "Ok" THEN F(r.v) ELSE r

\* ------------------------------------------------------------------ maps
Put(m, k, v) == [x \in (DOMAIN m) \cup {k} |-> IF x = k THEN v ELSE m[x]]

Remove(m, k) == [x \in (DOMAIN m) \ {k} |-> m[x]]

\* ------------------------------------------------------------ u32 values
Limb == 65536

U32(n) == <<n \div Limb, n % Limb>>

\* 16 x 16 -> 32 bit product as <<hi, lo>>, computed on 8-bit halves
Mul16(x, y) ==
    LET x1 == x \div 256
        x0 == x % 256
        y1 == y \div 256
        y0 == y % 256
        m  == x1 * y0 + x0 * y1
        t  == (m % 256) * 256 + x0 * y0
    IN  <<x1 * y1 + (m \div 256) + (t \div Limb), t % Limb>>

\* a * b on u32: the wrapped product and whether the true product overflows
MulU32(a, b) ==
    LET p0 == Mul16(a[2], b[2])
        p1 == Mul16(a[1], b[2])
        p2 == Mul16(a[2], b[1])
        p3 == Mul16(a[1], b[1])
        s  == p0[1] + p1[2] + p2[2]
    IN  [wrapped  |-> <<s % Limb, p0[2]>>,
         overflow |-> s >= Limb \/ p1[1] > 0 \/ p2[1] > 0 \/ p3 # <<0, 0>>]

\* ---------------------------------------------------------------- strings
\* a String is the sequence of its UTF-8 bytes
Utf8(s) ==
    CASE s = "RGB8" -> <<82, 71, 66, 56>>
      [] s = "BGR8" -> <<66, 71, 82, 56>>
      [] s = "GRAY8" -> <<71, 82, 65, 89, 56>>
      [] s = "XYXY" -> <<88, 89, 88, 89>>
      [] s = "XYWH" -> <<88, 89, 87, 72>>
      [] s = "cat" -> <<99, 97, 116>>
      [] s = "cam" -> <<99, 97, 109>>
      [] s = "v.m" -> <<118, 46, 109>>

\* String::from_utf8: every byte of the model's strings is ASCII
from_utf8(bytes) ==
    IF \A i \in 1..Len(bytes) : bytes[i] < 128 THEN Ok(bytes)
    ELSE Err("Invalid UTF-8 string")

\* image::Encoding
Encoding_to_string(e) ==
    CASE e = "RGB8" -> Utf8("RGB8")
      [] e = "BGR8" -> Utf8("BGR8")
      [] e = "GRAY8" -> Utf8("GRAY8")

Encoding_from_string(s) ==
    CASE s = Utf8("RGB8") -> Ok("RGB8")
      [] s = Utf8("BGR8") -> Ok("BGR8")
      [] s = Utf8("GRAY8") -> Ok("GRAY8")
      [] OTHER -> Err("Invalid String Encoding")

\* Option<String>: None is <<>>, Some(s) is <<s>>
None == <<>>

Some(s) == <<s>>

\* ----------------------------------------------------------------- arrays
\* an Arrow array: its data type, its value buffer (a heap address, or the
\* values themselves for the one-element and string arrays, whose address
\* nobody observes) and, for strings, its offsets
HeapBuf(a) == [ptr |-> a, inl |-> <<>>]

InlBuf(s) == [ptr |-> 0, inl |-> s]

Array(t, b, o) == [dtype |-> t, buf |-> b, offsets |-> o]

RECURSIVE Concat(_)
Concat(ss) == IF ss = <<>> THEN <<>> ELSE Head(ss) \o Concat(Tail(ss))

RECURSIVE Offsets(_, _)
Offsets(ss, from) ==
    IF ss = <<>> THEN <<from>>
    ELSE <<from>> \o Offsets(Tail(ss), from + Len(Head(ss)))

\* StringArray::from(Vec<String>)
StringArray(ss) == Array("Utf8", InlBuf(Concat(ss)), Offsets(ss, 0))

\* ---------------------------------------------------- FastFormatArrowBuilder
FastFormatArrowBuilder_new == [union_children |-> <<>>, union_fields |-> <<>>]

BuilderPush(b, field, arr) ==
    [union_children |-> Append(b.union_children, arr),
     union_fields   |-> Append(b.union_fields,
                               <<Len(b.union_children), field, arr.dtype>>)]

push_primitive_singleton(b, t, field, value) ==
    BuilderPush(b, field, Array(t, InlBuf(<<value>>), <<>>))

\* from_iter_values(value) keeps the vector's allocation
push_primitive_array(b, t, field, ptr) ==
    BuilderPush(b, field, Array(t, HeapBuf(ptr), <<>>))

push_utf_singleton(b, field, value) ==
    BuilderPush(b, field, StringArray(<<value>>))

push_utf_array(b, field, values) ==
    BuilderPush(b, field, StringArray(values))

Builder_into_arrow(b, schema) ==
    Ok([kind |-> "ArrayData", schema |-> schema,
        union_fields |-> b.union_fields, union_children |-> b.union_children])

\* ---------------------------------------------------- FastFormatArrowRawData
\* a map that files the first child under every name
RECURSIVE RawDataFields_first(_, _, _)
RawDataFields_first(fields, children, result) ==
    IF fields = <<>> THEN Ok(result)
    ELSE IF children = <<>> THEN Err("Invalid union array field's index")
    ELSE RawDataFields_first(Tail(fields), children,
                             Put(result, Head(fields)[2], children[1]))

RECURSIVE RawDataFields(_, _, _)
RawDataFields(fields, children, result) ==
    IF fields = <<>> THEN Ok(result)
    ELSE LET f == Head(fields)
         IN  IF f[1] + 1 \in DOMAIN children
             THEN RawDataFields(Tail(fields), children,
                                Put(result, f[2], children[f[1] + 1]))
             ELSE Err("Invalid union array field's index")

FastFormatArrowRawData_new(array_data) ==
    Then(RawDataFields(array_data.union_fields, array_data.union_children, <<>>),
         LAMBDA m : Ok([buffers |-> <<>>, offset_buffers |-> <<>>,
                        array_data |-> m]))

load_primitive(r, t, field) ==
    IF field \notin DOMAIN r.array_data THEN Err("Invalid field for this map of data")
    ELSE LET data == r.array_data[field]
         IN  IF data.dtype # t THEN Panic("PrimitiveArray expected data type")
             ELSE Ok([buffers |-> Put(r.buffers, field, [buf |-> data.buf, dtype |-> t]),
                      offset_buffers |-> r.offset_buffers,
                      array_data |-> Remove(r.array_data, field)])

load_utf(r, field) ==
    IF field \notin DOMAIN r.array_data THEN Err("Invalid field for this map of data")
    ELSE LET data == r.array_data[field]
         IN  IF data.dtype # "Utf8" THEN Panic("StringArray expected data type")
             ELSE Ok([buffers |-> Put(r.buffers, field, [buf |-> data.buf, dtype |-> "Utf8"]),
                      offset_buffers |-> Put(r.offset_buffers, field, data.offsets),
                      array_data |-> Remove(r.array_data, field)])

\* the bytes (elements) of a buffer
Slice(h, b) == IF b.ptr = 0 THEN b.inl ELSE h[b.ptr]

utf8_singleton(h, r, field) ==
    IF field \notin DOMAIN r.buffers \/ field \notin DOMAIN r.offset_buffers
    THEN Err("Invalid field for this map of data")
    ELSE LET slice == Slice(h, r.buffers[field].buf)
             offs  == r.offset_buffers[field]
         IN  IF Len(offs) < 2 THEN Err("No offset associated with field")
             ELSE IF offs[2] > Len(slice) THEN Panic("range end index out of range")
             ELSE from_utf8(SubSeq(slice, 1, offs[2]))

primitive_singleton(h, r, t, field) ==
    IF field \notin DOMAIN r.buffers THEN Err("Invalid field for this map of data")
    ELSE LET slice == Slice(h, r.buffers[field].buf)
         IN  IF slice = <<>> THEN Panic("index out of bounds") ELSE Ok(slice[1])

primitive_array_view(r, t, field) ==
    IF field \notin DOMAIN r.buffers THEN Err("Invalid field for this map of data")
    ELSE Ok(r.buffers[field].buf.ptr)

\* a reclaim that does not look at the other holders of the buffer
primitive_array_unchecked(r, t, field, shared) ==
    IF field \notin DOMAIN r.buffers
    THEN [tag |-> "Err", v |-> 0, raw |-> r]
    ELSE [tag |-> "Ok", v |-> r.buffers[field].buf.ptr,
          raw |-> [r EXCEPT !.buffers = Remove(r.buffers, field)]]

\* a reclaim that does not put a shared buffer back into the map
primitive_array_dropping(r, t, field, shared) ==
    IF field \notin DOMAIN r.buffers
    THEN [tag |-> "Err", v |-> 0, raw |-> r]
    ELSE IF shared
         THEN [tag |-> "Err", v |-> 0,
               raw |-> [r EXCEPT !.buffers = Remove(r.buffers, field)]]
         ELSE [tag |-> "Ok", v |-> r.buffers[field].buf.ptr,
               raw |-> [r EXCEPT !.buffers = Remove(r.buffers, field)]]

\* a reclaim that leaves the buffer in the map
primitive_array_keeping(r, t, field, shared) ==
    IF field \notin DOMAIN r.buffers \/ shared
    THEN [tag |-> "Err", v |-> 0, raw |-> r]
    ELSE [tag |-> "Ok", v |-> r.buffers[field].buf.ptr, raw |-> r]

\* Buffer::into_vec succeeds only for the sole reference to an allocation
\* that has a vector's layout (the buffers arrow allocates for strings and
\* one-element arrays have arrow's own alignment); the result carries the
\* decomposition as the call leaves it
primitive_array(r, t, field, shared) ==
    IF field \notin DOMAIN r.buffers
    THEN [tag |-> "Err", v |-> 0, raw |-> r]
    ELSE IF shared \/ r.buffers[field].buf.ptr = 0
         THEN [tag |-> "Err", v |-> 0, raw |-> r]
         ELSE [tag |-> "Ok", v |-> r.buffers[field].buf.ptr,
               raw |-> [r EXCEPT !.buffers = Remove(r.buffers, field)]]

\* ------------------------------------------------------------------ Cow
Owned(a) == [own |-> TRUE, ptr |-> a]

Borrowed(a) == [own |-> FALSE, ptr |-> a]

\* a Cow that hands out the borrowed buffer itself
into_owned_in_place(h, cow, fresh) == [ptr |-> cow.ptr, heap |-> h]

\* a Cow that copies an owned vector too
into_owned_copy(h, cow, fresh) ==
    [ptr |-> fresh, heap |-> [h EXCEPT ![fresh] = h[cow.ptr]]]

\* Cow::into_owned / Cow::to_mut: a borrowed slice is copied into a fresh
\* allocation, an owned vector is kept; yields the address and the heap
into_owned(h, cow, fresh) ==
    IF cow.own THEN [ptr |-> cow.ptr, heap |-> h]
    ELSE [ptr |-> fresh, heap |-> [h EXCEPT ![fresh] = h[cow.ptr]]]

\* the allocator hands out the lowest free address
Alloc(free) == CHOOSE a \in free : \A b \in free : a <= b

\* ---------------------------------------------------------------- Image
ImageData_into_u8(h, data, fresh) == into_owned(h, data, fresh)

\* a constructor that keeps a borrow of the vector
ImageData_from_vec_u8_borrowed(ptr) == Borrowed(ptr)

ImageData_from_vec_u8(ptr) == Owned(ptr)

\* a view that takes the buffer as its own
ImageData_from_slice_u8_owned(ptr) == Owned(ptr)

ImageData_from_slice_u8(ptr) == Borrowed(ptr)

Image(data, width, height, encoding, name) ==
    [kind |-> "Image", data |-> data, width |-> width, height |-> height,
     encoding |-> encoding, name |-> name]

\* width * height * 3 in u32: a build with overflow checks panics, one
\* without wraps (checked is the build's choice)
ImageSize(width, height, channels, checked) ==
    LET p1 == MulU32(width, height)
        p2 == MulU32(p1.wrapped, U32(channels))
    IN  IF checked /\ (p1.overflow \/ p2.overflow)
        THEN Panic("attempt to multiply with overflow")
        ELSE Ok(p2.wrapped)

new_bgr8(ptr, len, width, height, name, checked) ==
    Then(ImageSize(width, height, 3, checked),
         LAMBDA size :
            IF size # U32(len)
            THEN Err("Width, height and BGR8 encoding doesn't match data length.")
            ELSE Ok(Image(ImageData_from_vec_u8(ptr), width, height, "BGR8", name)))

new_rgb8(ptr, len, width, height, name, checked) ==
    Then(ImageSize(width, height, 3, checked),
         LAMBDA size :
            IF U32(len) # size
            THEN Err("Invalid pixel data length.")
            ELSE Ok(Image(ImageData_from_vec_u8(ptr), width, height, "RGB8", name)))

new_gray8(ptr, len, width, height, name, checked) ==
    Then(ImageSize(width, height, 1, checked),
         LAMBDA size :
            IF U32(len) # size
            THEN Err("Invalid data data length.")
            ELSE Ok(Image(ImageData_from_vec_u8(ptr), width, height, "GRAY8", name)))

\* data.swap(i, j) with 0-based i, j inside the vector
Swap(d, i, j) ==
    [k \in 1..Len(d) |-> IF k = i + 1 THEN d[j + 1]
                         ELSE IF k = j + 1 THEN d[i + 1] ELSE d[k]]

\* for i in (0..data.len()).step_by(3) { data.swap(i, i + 2) }
RECURSIVE SwapChannels(_, _)
SwapChannels(d, i) ==
    IF i >= Len(d) THEN Ok(d)
    ELSE IF i + 2 >= Len(d) THEN Panic("index out of bounds")
    ELSE SwapChannels(Swap(d, i, i + 2), i + 3)

\* a conversion that swaps whatever the tag says
ImageConvert_untagged(h, img, fresh, from, to) ==
    IF img.encoding \in {from, to}
    THEN LET o == into_owned(h, img.data, fresh)
             s == SwapChannels(o.heap[o.ptr], 0)
         IN  IF s.tag = "Ok"
             THEN [tag |-> "Ok",
                   v |-> [img EXCEPT !.data = Owned(o.ptr), !.encoding = to],
                   heap |-> [o.heap EXCEPT ![o.ptr] = s.v]]
             ELSE [tag |-> s.tag, v |-> 0, heap |-> h]
    ELSE [tag |-> "Err", v |-> 0, heap |-> h]

\* the colour conversion shared by into_rgb8 and into_bgr8; the result
\* carries the heap after the call
ImageConvert(h, img, fresh, from, to) ==
    IF img.encoding = from
    THEN LET o == ImageData_into_u8(h, img.data, fresh)
             s == SwapChannels(o.heap[o.ptr], 0)
         IN  IF s.tag = "Ok"
             THEN [tag |-> "Ok",
                   v |-> Image(ImageData_from_vec_u8(o.ptr), img.width, img.height,
                               to, img.name),
                   heap |-> [o.heap EXCEPT ![o.ptr] = s.v]]
             ELSE [tag |-> s.tag, v |-> 0, heap |-> h]
    ELSE IF img.encoding = to THEN [tag |-> "Ok", v |-> img, heap |-> h]
    ELSE [tag |-> "Err", v |-> 0, heap |-> h]

\* a conversion that lets a GRAY8 image through
Image_into_rgb8_lenient(h, img, fresh) ==
    IF img.encoding = "GRAY8" THEN [tag |-> "Ok", v |-> img, heap |-> h]
    ELSE ImageConvert(h, img, fresh, "BGR8", "RGB8")

Image_into_rgb8(h, img, fresh) == ImageConvert(h, img, fresh, "BGR8", "RGB8")

\* a conversion that rewrites the tag and leaves the pixels
Image_into_bgr8_tag_only(h, img, fresh) ==
    IF img.encoding = "RGB8"
    THEN [tag |-> "Ok", v |-> [img EXCEPT !.encoding = "BGR8"], heap |-> h]
    ELSE IF img.encoding = "BGR8" THEN [tag |-> "Ok", v |-> img, heap |-> h]
    ELSE [tag |-> "Err", v |-> 0, heap |-> h]

Image_into_bgr8(h, img, fresh) == ImageConvert(h, img, fresh, "RGB8", "BGR8")

\* an encoder that writes the empty string whatever the name is
NameDropped(name) == <<>>

\* self.name.map_or_else(|| "".to_string(), |s| s)
NameOrEmpty(name) == IF name = None THEN <<>> ELSE name[1]

\* Some(s).filter(|s| !s.is_empty())
NonEmptyName(s) == IF s = <<>> THEN None ELSE Some(s)

Image_into_arrow(h, img, fresh) ==
    LET b4 == push_utf_singleton(
                push_utf_singleton(
                  push_primitive_singleton(
                    push_primitive_singleton(FastFormatArrowBuilder_new,
                                             "UInt32", "width", img.width),
                    "UInt32", "height", img.height),
                  "encoding", Encoding_to_string(img.encoding)),
                "name", NameOrEmpty(img.name))
        o  == ImageData_into_u8(h, img.data, fresh)
        r  == Builder_into_arrow(push_primitive_array(b4, "UInt8", "data", o.ptr), "Image")
    IN  [tag |-> r.tag, v |-> r.v, heap |-> o.heap]

Image_raw_data(h, array_data) ==
    LET r1 == Then(FastFormatArrowRawData_new(array_data),
                   LAMBDA r : load_primitive(r, "UInt32", "width"))
        r2 == Then(r1, LAMBDA r : load_primitive(r, "UInt32", "height"))
        r3 == Then(r2, LAMBDA r : load_utf(r, "encoding"))
        r4 == Then(r3, LAMBDA r : load_utf(r, "name"))
        e  == Then(r4, LAMBDA r : Then(utf8_singleton(h, r, "encoding"),
                                       Encoding_from_string))
    IN  IF e.tag = "Ok" THEN load_primitive(r4.v, "UInt8", "data") ELSE e

\* the fields both Image decoders read before the pixel data
ImageHeader(h, r) ==
    LET w == primitive_singleton(h, r, "UInt32", "width")
        g == Then(w, LAMBDA x : primitive_singleton(h, r, "UInt32", "height"))
        e == Then(g, LAMBDA x : Then(utf8_singleton(h, r, "encoding"),
                                     Encoding_from_string))
        n == Then(e, LAMBDA x : utf8_singleton(h, r, "name"))
    IN  IF n.tag = "Ok"
        THEN Ok([width |-> w.v, height |-> g.v, encoding |-> e.v,
                 name |-> NonEmptyName(n.v)])
        ELSE n

Image_from_raw_data(h, r, shared) ==
    Then(ImageHeader(h, r),
         LAMBDA hd :
            LET d == primitive_array(r, "UInt8", "data", shared)
            IN  IF d.tag = "Ok"
                THEN Ok(Image(ImageData_from_vec_u8(d.v), hd.width, hd.height,
                              hd.encoding, hd.name))
                ELSE Err("Invalid primitive array type. Or the buffer is shared."))

Image_view_from_raw_data(h, r) ==
    Then(ImageHeader(h, r),
         LAMBDA hd :
            Then(primitive_array_view(r, "UInt8", "data"),
                 LAMBDA p : Ok(Image(ImageData_from_slice_u8(p), hd.width, hd.height,
                                     hd.encoding, hd.name))))

Image_from_arrow(h, array_data, shared) ==
    Then(Image_raw_data(h, array_data),
         LAMBDA r : Image_from_raw_data(h, r, shared))

\* ------------------------------------------------------ Image and ndarray
\* an NdarrayImage: the array (its variant, its shape, the vector it owns),
\* the encoding and the name.  Array::from_shape_vec accepts the vector
\* when the product of the shape, computed in usize, is its length.
Image_into_ndarray(h, img, fresh) ==
    LET o  == ImageData_into_u8(h, img.data, fresh)
        p1 == MulU32(img.height, img.width)
        p2 == MulU32(p1.wrapped, U32(IF img.encoding = "GRAY8" THEN 1 ELSE 3))
    IN  IF ~p1.overflow /\ ~p2.overflow /\ p2.wrapped = U32(Len(o.heap[o.ptr]))
        THEN [tag |-> "Ok",
              v |-> [kind |-> "Ndarray",
                     variant |-> IF img.encoding = "GRAY8" THEN "U8IX2" ELSE "U8IX3",
                     shape |-> <<img.height, img.width>>,
                     data |-> Owned(o.ptr),
                     encoding |-> img.encoding, name |-> img.name],
              heap |-> o.heap]
        ELSE [tag |-> "Err", v |-> 0, heap |-> h]

\* into_raw_vec_and_offset gives the array's vector back
Image_from_ndarray(h, nd, checked) ==
    LET width  == nd.shape[2]
        height == nd.shape[1]
        len    == Len(h[nd.data.ptr])
    IN  CASE nd.variant = "U8IX3" /\ nd.encoding = "BGR8" ->
               new_bgr8(nd.data.ptr, len, width, height, nd.name, checked)
          [] nd.variant = "U8IX3" /\ nd.encoding = "RGB8" ->
               new_rgb8(nd.data.ptr, len, width, height, nd.name, checked)
          [] nd.variant = "U8IX2" /\ nd.encoding = "GRAY8" ->
               new_gray8(nd.data.ptr, len, width, height, nd.name, checked)
          [] OTHER -> Err("Invalid Ndarray type")

\* ------------------------------------------------ Python binding handles
\* Option::unwrap
Option_unwrap(o) == IF o = None THEN Panic("unwrap") ELSE Ok(o[1])

\* #[pyclass] PyImage(Option<Image<'static>>)
PyImage(image) == [kind |-> "PyImage", image |-> image]

\* what a method hands to the host that is not a handle: None or a str
\* (Option of its bytes), an int (its limbs), a pointer (the address)
HostValue(type, x) == [kind |-> type, v |-> x]

\* #[pyclass] PyArrowData(Option<PyArrowType<ArrayData>>)
PyArrowData(array) == [kind |-> "PyArrowData", array |-> array]

\* self.0.as_ref().unwrap().name.as_deref()
PyImage_name(self) == Then(Option_unwrap(self.image), LAMBDA i : Ok(HostValue("Option<&str>", i.name)))

PyImage_width(self) == Then(Option_unwrap(self.image), LAMBDA i : Ok(HostValue("u32", <<i.width>>)))

PyImage_height(self) == Then(Option_unwrap(self.image), LAMBDA i : Ok(HostValue("u32", <<i.height>>)))

PyImage_as_ptr(self) == Then(Option_unwrap(self.image), LAMBDA i : Ok(HostValue("*const u8", <<<<i.data.ptr>>>>)))

\* a method that moves the image out calls self.0.take().unwrap(), then
\* the image's own method
PyImage_into_rgb8(h, self, fresh) ==
    LET u == Option_unwrap(self.image)
    IN  IF u.tag # "Ok" THEN [tag |-> u.tag, v |-> 0, heap |-> h]
        ELSE LET r == Image_into_rgb8(h, u.v, fresh)
             IN  IF r.tag = "Ok" THEN [r EXCEPT !.v = PyImage(Some(r.v))] ELSE r

PyImage_into_bgr8(h, self, fresh) ==
    LET u == Option_unwrap(self.image)
    IN  IF u.tag # "Ok" THEN [tag |-> u.tag, v |-> 0, heap |-> h]
        ELSE LET r == Image_into_bgr8(h, u.v, fresh)
             IN  IF r.tag = "Ok" THEN [r EXCEPT !.v = PyImage(Some(r.v))] ELSE r

PyImage_into_arrow(h, self, fresh) ==
    LET u == Option_unwrap(self.image)
    IN  IF u.tag # "Ok" THEN [tag |-> u.tag, v |-> 0, heap |-> h]
        ELSE LET r == Image_into_arrow(h, u.v, fresh)
             IN  IF r.tag = "Ok" THEN [r EXCEPT !.v = PyArrowData(r.v)] ELSE r

\* ----------------------------------------------- Image, the earlier tree
\* src/src holds the crate as it was before the converter library: the
\* same constructors, and a codec between Image and a union array.
\* Image::to_arrow: the pixel vector becomes the "pixels" child, the name a
\* nullable string
Image_to_arrow(img) ==
    Ok([kind |-> "ArrayData", schema |-> "UnionImage",
        union_fields |-> <<<<0, "pixels", "UInt8">>, <<1, "width", "UInt32">>,
                           <<2, "height", "UInt32">>, <<3, "encoding", "Utf8">>,
                           <<4, "name", "Utf8">>>>,
        union_children |->
            <<Array("UInt8", HeapBuf(img.data.ptr), <<>>),
              Array("UInt32", InlBuf(<<img.width>>), <<>>),
              Array("UInt32", InlBuf(<<img.height>>), <<>>),
              StringArray(<<Encoding_to_string(img.encoding)>>),
              [StringArray(<<NameOrEmpty(img.name)>>) EXCEPT
                  !.dtype = IF img.name = None THEN "Utf8 null" ELSE "Utf8"]>>])

\* Image::from_arrow of the earlier tree: the union array is never dropped
\* (ManuallyDrop) and the pixel column's memory becomes a vector through
\* Vec::from_raw_parts, whoever else holds the buffer. The constructor
\* then validates as it did when the image was built, so its product
\* does not panic here.
Image_from_union_array(h, array) ==
    LET col(i) == array.union_children[i]
        enc    == Then(from_utf8(Slice(h, col(4).buf)), Encoding_from_string)
        name   == IF col(5).dtype = "Utf8 null" THEN None
                  ELSE Some(Slice(h, col(5).buf))
        ptr    == col(1).buf.ptr
        len    == Len(h[ptr])
        width  == col(2).buf.inl[1]
        height == col(3).buf.inl[1]
    IN  IF enc.tag # "Ok" THEN Err("Invalid encoding")
        ELSE IF enc.v = "RGB8" THEN new_rgb8(ptr, len, width, height, name, FALSE)
        ELSE IF enc.v = "BGR8" THEN new_bgr8(ptr, len, width, height, name, FALSE)
        ELSE new_gray8(ptr, len, width, height, name, FALSE)

\* ------------------------------------------------------------ f32 values
\* an f32 holding an integer: exact up to 2^24, beyond that rounded to the
\* nearest multiple of the spacing 2^e, ties to the even significand
F32Exact == 16777216

RECURSIVE F32Spacing(_, _)
F32Spacing(a, s) == IF a < F32Exact * s THEN s ELSE F32Spacing(a, 2 * s)

F32Round(n) ==
    LET a == IF n < 0 THEN 0 - n ELSE n
        s == F32Spacing(a, 1)
        q == a \div s
        r == a % s
        m == IF 2 * r < s THEN q
             ELSE IF 2 * r > s THEN q + 1
             ELSE IF q % 2 = 0 THEN q ELSE q + 1
    IN  IF n < 0 THEN 0 - (m * s) ELSE m * s

F32Add(x, y) == F32Round(x + y)

F32Sub(x, y) == F32Round(x - y)

\* ---------------------------------------------------- ArrowDataBuilder
ArrowDataBuilder_default == [union_children |-> <<>>, union_fields |-> <<>>]

ArrowDataBuilder_push_primitive_array(b, t, field, ptr) ==
    BuilderPush(b, field, Array(t, HeapBuf(ptr), <<>>))

ArrowDataBuilder_push_utf8_array(b, field, values) ==
    BuilderPush(b, field, StringArray(values))

ArrowDataBuilder_push_utf8_singleton(b, field, value) ==
    BuilderPush(b, field, StringArray(<<value>>))

ArrowDataBuilder_build(b, schema) ==
    Ok([kind |-> "ArrayData", schema |-> schema,
        union_fields |-> b.union_fields, union_children |-> b.union_children])

ArrowDataBuilder_push_primitive_singleton(b, t, field, value) ==
    BuilderPush(b, field, Array(t, InlBuf(<<value>>), <<>>))

\* ---------------------------------------------------------------- records
\* a caller's own record: the pushes it makes into one of the two builders,
\* in order; the vector of the i-th push is the caller's i-th allocation
PushField(api, b, p, ptr) ==
    IF api = "FastFormatArrowBuilder"
    THEN CASE p.kind = "utf_array" -> push_utf_array(b, p.field, p.value)
           [] p.kind = "utf_singleton" -> push_utf_singleton(b, p.field, p.value[1])
           [] p.kind = "primitive_array" -> push_primitive_array(b, p.t, p.field, ptr)
           [] p.kind = "primitive_singleton" ->
                 push_primitive_singleton(b, p.t, p.field, p.value[1][1])
    ELSE CASE p.kind = "utf_array" -> ArrowDataBuilder_push_utf8_array(b, p.field, p.value)
           [] p.kind = "utf_singleton" ->
                 ArrowDataBuilder_push_utf8_singleton(b, p.field, p.value[1])
           [] p.kind = "primitive_array" ->
                 ArrowDataBuilder_push_primitive_array(b, p.t, p.field, ptr)
           [] p.kind = "primitive_singleton" ->
                 ArrowDataBuilder_push_primitive_singleton(b, p.t, p.field, p.value[1][1])

RECURSIVE PushAll(_, _, _, _)
PushAll(api, b, pushes, i) ==
    IF i > Len(pushes) THEN b
    ELSE PushAll(api, PushField(api, b, pushes[i], i), pushes, i + 1)

BuildRecord(api, pushes) ==
    IF api = "FastFormatArrowBuilder"
    THEN Builder_into_arrow(PushAll(api, FastFormatArrowBuilder_new, pushes, 1), "Record")
    ELSE ArrowDataBuilder_build(PushAll(api, ArrowDataBuilder_default, pushes, 1), "Record")

\* ------------------------------------------------------- utf8 arrays
\* the strings between consecutive offsets, as the owned extractor cuts them
RECURSIVE CutStrings(_, _, _)
CutStrings(slice, offs, last_offset) ==
    IF offs = <<>> THEN Ok(<<>>)
    ELSE LET offset == Head(offs)
         IN  IF offset < last_offset \/ offset > Len(slice)
             THEN Panic("slice index out of range")
             ELSE LET s == from_utf8(SubSeq(slice, last_offset + 1, offset))
                      t == CutStrings(slice, Tail(offs), offset)
                  IN  IF s.tag # "Ok" THEN s
                      ELSE IF t.tag # "Ok" THEN t
                      ELSE Ok(<<s.v>> \o t.v)

\* a reader that cuts a string at the first offset too
utf8_array_unskipped(h, r, field) ==
    IF field \notin DOMAIN r.buffers \/ field \notin DOMAIN r.offset_buffers
    THEN Err("Invalid field for this map of data")
    ELSE CutStrings(Slice(h, r.buffers[field].buf), r.offset_buffers[field], 0)

utf8_array(h, r, field) ==
    IF field \notin DOMAIN r.buffers \/ field \notin DOMAIN r.offset_buffers
    THEN Err("Invalid field for this map of data")
    ELSE LET offs == r.offset_buffers[field]
         IN  CutStrings(Slice(h, r.buffers[field].buf),
                        IF offs = <<>> THEN <<>> ELSE Tail(offs), 0)

\* ------------------------------------------------------ ArrowDataViewer
ArrowDataViewer_new(array_data) ==
    Then(RawDataFields(array_data.union_fields, array_data.union_children, <<>>),
         LAMBDA m : Ok([buffers |-> <<>>, offset_buffers |-> <<>>,
                        array_data |-> m]))

ArrowDataViewer_load_primitive(r, t, field) ==
    IF field \notin DOMAIN r.array_data THEN Err("Invalid field for this map of data")
    ELSE LET data == r.array_data[field]
         IN  IF data.dtype # t THEN Panic("PrimitiveArray expected data type")
             ELSE Ok([buffers |-> Put(r.buffers, field, [buf |-> data.buf, dtype |-> t]),
                      offset_buffers |-> r.offset_buffers,
                      array_data |-> Remove(r.array_data, field)])

ArrowDataViewer_load_utf8(r, field) ==
    IF field \notin DOMAIN r.array_data THEN Err("Invalid field for this map of data")
    ELSE LET data == r.array_data[field]
         IN  IF data.dtype # "Utf8" THEN Panic("StringArray expected data type")
             ELSE Ok([buffers |-> Put(r.buffers, field, [buf |-> data.buf, dtype |-> "Utf8"]),
                      offset_buffers |-> Put(r.offset_buffers, field, data.offsets),
                      array_data |-> Remove(r.array_data, field)])

\* a view that is refused unless the field's array is still in the map
ArrowDataViewer_primitive_array_unloaded(r, t, field) ==
    IF field \notin DOMAIN r.array_data THEN Err("Invalid field for this map of data")
    ELSE Ok(r.array_data[field].buf.ptr)

ArrowDataViewer_primitive_array(r, t, field) ==
    IF field \notin DOMAIN r.buffers THEN Err("Invalid field for this map of data")
    ELSE Ok(r.buffers[field].buf.ptr)

ArrowDataViewer_utf8_array(r, field) == Err("Not implemented")

ArrowDataViewer_utf8_singleton(h, r, field) ==
    IF field \notin DOMAIN r.array_data THEN Err("Invalid field for this map of data")
    ELSE LET data == r.array_data[field]
         IN  IF data.dtype # "Utf8" THEN Panic("StringArray expected data type")
             ELSE IF Len(data.offsets) < 2 THEN Err("No offset associated with field")
             ELSE IF data.offsets[2] > Len(Slice(h, data.buf))
                  THEN Panic("range end index out of range")
             ELSE from_utf8(SubSeq(Slice(h, data.buf), 1, data.offsets[2]))

\* ----------------------------------------------------- ArrowDataConsumer
\* the owned extractor: a name -> array map whose primitive_array removes
\* the field and reclaims its buffer when nobody else references it
ArrowDataConsumer_new(array_data) ==
    Then(RawDataFields(array_data.union_fields, array_data.union_children, <<>>),
         LAMBDA m : Ok([array_data |-> m]))

ArrowDataConsumer_primitive_array(c, t, field, shared) ==
    IF field \notin DOMAIN c.array_data
    THEN [tag |-> "Err", v |-> 0, consumer |-> c]
    ELSE IF c.array_data[field].dtype # t
    THEN [tag |-> "Err", v |-> 0, consumer |-> c]
    ELSE IF shared
    THEN [tag |-> "Err", v |-> 0, consumer |-> c]
    ELSE [tag |-> "Ok", v |-> c.array_data[field].buf.ptr,
          consumer |-> [array_data |-> Remove(c.array_data, field)]]

ArrowDataConsumer_utf8_array(h, c, field) ==
    IF field \notin DOMAIN c.array_data THEN Err("FieldMissing")
    ELSE LET data == c.array_data[field]
         IN  IF data.dtype # "Utf8" THEN Err("TypeMismatch")
             ELSE LET offs == data.offsets
                      cut  == CutStrings(Slice(h, data.buf),
                                         IF offs = <<>> THEN <<>> ELSE Tail(offs), 0)
                  IN  IF cut.tag = "Panic" THEN Err("MalformedOffsets") ELSE cut

ArrowDataConsumer_utf8_singleton(h, c, field) ==
    Then(ArrowDataConsumer_utf8_array(h, c, field),
         LAMBDA ss : IF ss = <<>> THEN Err("MalformedOffsets") ELSE Ok(ss[1]))

\* ----------------------------------------------------------------- BBox
BBox(data, confidence, label, encoding) ==
    [kind |-> "BBox", data |-> data, confidence |-> confidence,
     label |-> label, encoding |-> encoding]

BBoxEncoding_to_string(e) ==
    CASE e = "XYXY" -> Utf8("XYXY")
      [] e = "XYWH" -> Utf8("XYWH")

BBoxEncoding_from_string(s) ==
    CASE s = Utf8("XYXY") -> Ok("XYXY")
      [] s = Utf8("XYWH") -> Ok("XYWH")
      [] OTHER -> Err("Invalid String Encoding")

new_xyxy(dptr, dlen, cptr, clen, label) ==
    IF clen # Len(label) \/ clen * 4 # dlen
    THEN Err("Confidence, Label and Data doesn't match length")
    ELSE Ok(BBox(Owned(dptr), Owned(cptr), label, "XYXY"))

\* a constructor that compares confidence with label only
new_xywh_data_unchecked(dptr, dlen, cptr, clen, label) ==
    IF clen # Len(label)
    THEN Err("Confidence, Label and Data doesn't match length")
    ELSE Ok(BBox(Owned(dptr), Owned(cptr), label, "XYWH"))

new_xywh(dptr, dlen, cptr, clen, label) ==
    IF clen # Len(label) \/ clen * 4 # dlen \/ Len(label) * 4 # dlen
    THEN Err("Confidence, Label and Data doesn't match length")
    ELSE Ok(BBox(Owned(dptr), Owned(cptr), label, "XYWH"))

\* for i in 0..confidence.len(): read x, y, w, h of box i (an error when
\* one is missing), then data[i*4+2] = x + w and data[i*4+3] = y + h
RECURSIVE XyxyLoop(_, _, _)
XyxyLoop(d, i, n) ==
    IF i >= n THEN Ok(d)
    ELSE IF i * 4 + 4 > Len(d) THEN Err("Not enough data matching 4 values per box!")
    ELSE XyxyLoop([d EXCEPT ![i * 4 + 3] = F32Add(d[i * 4 + 1], d[i * 4 + 3]),
                            ![i * 4 + 4] = F32Add(d[i * 4 + 2], d[i * 4 + 4])],
                  i + 1, n)

\* a loop that adds where it should subtract
XywhLoop_adding(d, i, n) == XyxyLoop(d, i, n)

\* the same loop with data[i*4+2] = x2 - x1 and data[i*4+3] = y2 - y1
RECURSIVE XywhLoop(_, _, _)
XywhLoop(d, i, n) ==
    IF i >= n THEN Ok(d)
    ELSE IF i * 4 + 4 > Len(d) THEN Err("Not enough data matching 4 values per box!")
    ELSE XywhLoop([d EXCEPT ![i * 4 + 3] = F32Sub(d[i * 4 + 3], d[i * 4 + 1]),
                            ![i * 4 + 4] = F32Sub(d[i * 4 + 4], d[i * 4 + 2])],
                  i + 1, n)

BBox_into_xyxy(h, b, fresh) ==
    IF b.encoding = "XYWH"
    THEN LET o == into_owned(h, b.data, fresh)
             l == XyxyLoop(o.heap[o.ptr], 0, Len(h[b.confidence.ptr]))
         IN  IF l.tag = "Ok"
             THEN [tag |-> "Ok",
                   v |-> BBox(Owned(o.ptr), b.confidence, b.label, b.encoding),
                   heap |-> [o.heap EXCEPT ![o.ptr] = l.v]]
             ELSE [tag |-> l.tag, v |-> 0, heap |-> h]
    ELSE [tag |-> "Ok", v |-> b, heap |-> h]

BBox_into_xywh(h, b, fresh) ==
    IF b.encoding = "XYXY"
    THEN LET o == into_owned(h, b.data, fresh)
             l == XywhLoop(o.heap[o.ptr], 0, Len(h[b.confidence.ptr]))
         IN  IF l.tag = "Ok"
             THEN [tag |-> "Ok",
                   v |-> BBox(Owned(o.ptr), b.confidence, b.label, b.encoding),
                   heap |-> [o.heap EXCEPT ![o.ptr] = l.v]]
             ELSE [tag |-> l.tag, v |-> 0, heap |-> h]
    ELSE [tag |-> "Ok", v |-> b, heap |-> h]

BBox_into_arrow(h, b, fresh, fresh2) ==
    LET d  == into_owned(h, b.data, fresh)
        c  == into_owned(d.heap, b.confidence, fresh2)
        bd == ArrowDataBuilder_push_utf8_singleton(
                ArrowDataBuilder_push_utf8_array(
                  ArrowDataBuilder_push_primitive_array(
                    ArrowDataBuilder_push_primitive_array(ArrowDataBuilder_default,
                                                          "Float32", "data", d.ptr),
                    "Float32", "confidence", c.ptr),
                  "label", b.label),
                "encoding", BBoxEncoding_to_string(b.encoding))
        r  == ArrowDataBuilder_build(bd, "BBox")
    IN  [tag |-> r.tag, v |-> r.v, heap |-> c.heap]

BBox_from_arrow(h, array_data, shared) ==
    Then(ArrowDataConsumer_new(array_data),
         LAMBDA c0 :
            LET d == ArrowDataConsumer_primitive_array(c0, "Float32", "data", shared)
                c == IF d.tag = "Ok"
                     THEN ArrowDataConsumer_primitive_array(d.consumer, "Float32",
                                                            "confidence", shared)
                     ELSE d
                l == IF c.tag = "Ok"
                     THEN ArrowDataConsumer_utf8_array(h, c.consumer, "label")
                     ELSE [tag |-> c.tag, v |-> 0]
                e == IF l.tag = "Ok"
                     THEN Then(ArrowDataConsumer_utf8_singleton(h, c.consumer, "encoding"),
                               BBoxEncoding_from_string)
                     ELSE l
            IN  IF e.tag = "Ok"
                THEN Ok(BBox(Owned(d.v), Owned(c.v), l.v, e.v))
                ELSE [tag |-> e.tag, v |-> 0])

BBox_viewer(array_data) ==
    LET r1 == Then(ArrowDataViewer_new(array_data),
                   LAMBDA r : ArrowDataViewer_load_primitive(r, "Float32", "data"))
        r2 == Then(r1, LAMBDA r : ArrowDataViewer_load_primitive(r, "Float32", "confidence"))
    IN  Then(r2, LAMBDA r : ArrowDataViewer_load_utf8(r, "label"))

BBox_view_arrow(h, viewer) ==
    LET d == ArrowDataViewer_primitive_array(viewer, "Float32", "data")
        c == Then(d, LAMBDA x : ArrowDataViewer_primitive_array(viewer, "Float32",
                                                                "confidence"))
        l == Then(c, LAMBDA x : ArrowDataViewer_utf8_array(viewer, "label"))
        e == Then(l, LAMBDA x : Then(ArrowDataViewer_utf8_singleton(h, viewer, "encoding"),
                                     BBoxEncoding_from_string))
    IN  IF e.tag = "Ok"
        THEN Ok(BBox(Borrowed(d.v), Borrowed(c.v), l.v, e.v))
        ELSE [tag |-> e.tag, v |-> 0]

\* ----------------------------------------------------------- LaserScan2D
ScalarFields == <<"min_distance", "max_distance", "angle_increment",
                  "angle_min", "angle_max">>

\* scalars holds the five f32 fields in the order of ScalarFields
LaserScan2D(data, intensities, length, scalars) ==
    [kind |-> "LaserScan2D", data |-> data, intensities |-> intensities,
     length |-> length, scalars |-> scalars]

LaserScan2D_new(dptr, dlen, iptr, ilen, length, scalars) ==
    IF dlen # ilen THEN Err("Data and Intensities length mismatch")
    ELSE Ok(LaserScan2D(Owned(dptr), Owned(iptr), length, scalars))

RECURSIVE PushScalars(_, _, _)
PushScalars(b, scalars, i) ==
    IF i > Len(ScalarFields) THEN b
    ELSE PushScalars(push_primitive_singleton(b, "Float32", ScalarFields[i], scalars[i]),
                     scalars, i + 1)

LaserScan2D_into_arrow(h, s, fresh, fresh2) ==
    LET d == into_owned(h, s.data, fresh)
        i == into_owned(d.heap, s.intensities, fresh2)
        b == PushScalars(
               push_primitive_singleton(
                 push_primitive_array(
                   push_primitive_array(FastFormatArrowBuilder_new,
                                        "Float32", "data", d.ptr),
                   "Float32", "intensities", i.ptr),
                 "UInt64", "length", s.length),
               s.scalars, 1)
        r == Builder_into_arrow(b, "LaserScan2D")
    IN  [tag |-> r.tag, v |-> r.v, heap |-> i.heap]

RECURSIVE LoadScalars(_, _)
LoadScalars(r, i) ==
    IF i > Len(ScalarFields) \/ r.tag # "Ok" THEN r
    ELSE LoadScalars(load_primitive(r.v, "Float32", ScalarFields[i]), i + 1)

LaserScan2D_raw_data(array_data) ==
    LET r1 == Then(FastFormatArrowRawData_new(array_data),
                   LAMBDA r : load_primitive(r, "Float32", "data"))
        r2 == Then(r1, LAMBDA r : load_primitive(r, "Float32", "intensities"))
        r3 == Then(r2, LAMBDA r : load_primitive(r, "UInt64", "length"))
    IN  LoadScalars(r3, 1)

RECURSIVE ReadScalars(_, _, _, _)
ReadScalars(h, r, i, acc) ==
    IF i > Len(ScalarFields) THEN Ok(acc)
    ELSE LET x == primitive_singleton(h, r, "Float32", ScalarFields[i])
         IN  IF x.tag = "Ok" THEN ReadScalars(h, r, i + 1, Append(acc, x.v)) ELSE x

LaserScan2D_from_raw_data(h, r, shared) ==
    LET d == primitive_array(r, "Float32", "data", shared)
        i == IF d.tag = "Ok"
             THEN primitive_array(d.raw, "Float32", "intensities", shared) ELSE d
        n == IF i.tag = "Ok"
             THEN primitive_singleton(h, i.raw, "UInt64", "length")
             ELSE Err("Invalid primitive array type. Or the buffer is shared.")
        s == Then(n, LAMBDA x : ReadScalars(h, i.raw, 1, <<>>))
    IN  IF s.tag = "Ok"
        THEN Ok(LaserScan2D(Owned(d.v), Owned(i.v), n.v, s.v))
        ELSE s

LaserScan2D_view_from_raw_data(h, r) ==
    LET d == primitive_array_view(r, "Float32", "data")
        i == Then(d, LAMBDA x : primitive_array_view(r, "Float32", "intensities"))
        n == Then(i, LAMBDA x : primitive_singleton(h, r, "UInt64", "length"))
        s == Then(n, LAMBDA x : ReadScalars(h, r, 1, <<>>))
    IN  IF s.tag = "Ok"
        THEN Ok(LaserScan2D(Borrowed(d.v), Borrowed(i.v), n.v, s.v))
        ELSE s

LaserScan2D_from_arrow(h, array_data, shared) ==
    Then(LaserScan2D_raw_data(array_data),
         LAMBDA r : LaserScan2D_from_raw_data(h, r, shared))

\* ---------------------------------------------------------- ImageInVideo
ImageInVideo_new(video_path, timestamp, framerate, name) ==
    Ok([kind |-> "ImageInVideo", video_path |-> video_path, timestamp |-> timestamp,
        framerate |-> framerate, name |-> name])

ImageInVideo_into_arrow(v) ==
    Builder_into_arrow(
      push_utf_singleton(
        push_primitive_singleton(
          push_primitive_singleton(
            push_utf_singleton(FastFormatArrowBuilder_new, "video_path", v.video_path),
            "Float32", "timestamp", v.timestamp),
          "Float32", "framerate", v.framerate),
        "name", NameOrEmpty(v.name)),
      "ImageInVideo")

ImageInVideo_raw_data(array_data) ==
    LET r1 == Then(FastFormatArrowRawData_new(array_data),
                   LAMBDA r : load_utf(r, "video_path"))
        r2 == Then(r1, LAMBDA r : load_primitive(r, "Float32", "timestamp"))
        r3 == Then(r2, LAMBDA r : load_primitive(r, "Float32", "framerate"))
    IN  Then(r3, LAMBDA r : load_utf(r, "name"))

ImageInVideo_from_raw_data(h, r) ==
    LET p == utf8_singleton(h, r, "video_path")
        t == Then(p, LAMBDA x : primitive_singleton(h, r, "Float32", "timestamp"))
        f == Then(t, LAMBDA x : primitive_singleton(h, r, "Float32", "framerate"))
        n == Then(f, LAMBDA x : utf8_singleton(h, r, "name"))
    IN  IF n.tag = "Ok"
        THEN ImageInVideo_new(p.v, t.v, f.v, NonEmptyName(n.v))
        ELSE n

ImageInVideo_from_arrow(h, array_data) ==
    Then(ImageInVideo_raw_data(array_data),
         LAMBDA r : ImageInVideo_from_raw_data(h, r))

\* ------------------------------------------------------------------ state
VARIABLES
    heap,    \* address -> contents of the buffer allocated there
    val,     \* the domain value the program holds, or Nothing
    wire,    \* the wire record (ArrayData) the program holds, or Nothing
    raw,     \* the decomposition (raw data / viewer) it holds, or Nothing
    clone,   \* another clone of the wire record kept by the caller, or Nothing
    last,    \* the last call and how it ended
    pre,     \* what the last call consumed: a conversion's value with its
             \* payloads, a constructor's arguments
    orig,    \* the value as its constructor returned it, with its payloads
    conv     \* conversions applied to the value since its construction

vars == <<heap, val, wire, raw, clone, last, pre, orig, conv>>

\* no value, no wire record, no decomposition
Nothing == [kind |-> "None"]

\* ------------------------------------------------------------- liveness
Range(f) == {f[x] : x \in DOMAIN f}

\* the buffers held by what a binding method returned to the host
HostPayloads(out) ==
    CASE out.kind = "PyImage" -> <<out.image[1].data>>
      [] out.kind = "PyArrowData" ->
            LET s == SelectSeq(out.array.union_children, LAMBDA a : a.buf.ptr # 0)
            IN  [i \in 1..Len(s) |-> Owned(s[i].buf.ptr)]
      [] OTHER -> <<>>

\* the payloads (Cows) of a value
PayloadSeq(v) ==
    CASE v.kind = "Image" -> <<v.data>>
      [] v.kind = "BBox" -> <<v.data, v.confidence>>
      [] v.kind = "LaserScan2D" -> <<v.data, v.intensities>>
      [] v.kind = "Vec" -> <<v.data>>
      [] v.kind = "Ndarray" -> <<v.data>>
      [] v.kind = "PyImage" ->
            (IF v.image = None THEN <<>> ELSE <<v.image[1].data>>) \o HostPayloads(v.out)
      [] OTHER -> <<>>

AddrsOfVal(v) == {c.ptr : c \in Range(PayloadSeq(v))}

AddrsOfWire(w) ==
    IF w.kind = "None" THEN {}
    ELSE {a.buf.ptr : a \in Range(w.union_children)} \ {0}

AddrsOfRaw(r) ==
    IF r.kind = "None" THEN {}
    ELSE ({a.buf.ptr : a \in Range(r.d.array_data)}
          \cup (IF "buffers" \in DOMAIN r.d
                THEN {b.buf.ptr : b \in Range(r.d.buffers)} ELSE {})) \ {0}

LiveOf(v, w, r, c) ==
    AddrsOfVal(v) \cup AddrsOfWire(w) \cup AddrsOfRaw(r) \cup AddrsOfWire(c)

Live == LiveOf(val, wire, raw, clone)

Free == (1..NumAddrs) \ Live

\* a buffer nobody holds is deallocated
Normalize(h, live) == [a \in (1..NumAddrs) |-> IF a \in live THEN h[a] ELSE <<>>]

\* an Image owns as its vector a buffer that another handle references
Aliased ==
    /\ val.kind = "Image" /\ val.data.own
    /\ val.data.ptr \in AddrsOfWire(wire) \cup AddrsOfRaw(raw) \cup AddrsOfWire(clone)

\* the run ends at a panic, and where a vector aliases a buffer that is
\* still referenced: what the program does with either is undefined
Running == last.res # "Panic" /\ ~Aliased

\* ----------------------------------------------------------------- inputs
\* pixel vectors 0, 1, 2, .. of every length up to MaxLen
ImageDatas == {[i \in 1..n |-> i - 1] : n \in 0..MaxLen}

\* 1431655766 * 3 = 2^32 + 2
Dims == {U32(0), U32(1), U32(2), <<21845, 21846>>}

Names == {None, Some(<<>>), Some(Utf8("cam"))}

Boxes == {<<1, 1, 2, 2>>, <<1, 1, 1, 1>>, <<0, 2, 3, 0>>,
          <<F32Exact, 3, 1, F32Exact>>}

RECURSIVE BoxLists(_)
BoxLists(n) ==
    IF n = 0 THEN {<<>>}
    ELSE BoxLists(n - 1) \cup {d \o b : d \in BoxLists(n - 1), b \in Boxes}

\* well-formed box data and the same data with its last value cut off
BBoxDatas ==
    BoxLists(MaxBoxes)
        \cup {SubSeq(d, 1, Len(d) - 1) : d \in BoxLists(MaxBoxes) \ {<<>>}}

Labels == {[i \in 1..n |-> IF i = 2 THEN <<>> ELSE Utf8("cat")] : n \in 0..MaxBoxes}


\* ------------------------------------------------------------------ steps
\* the state a call leaves: a panic ends the program
Finish(op, res, v, w, r, c, h) ==
    /\ last' = [op |-> op, res |-> res]
    /\ IF res = "Panic"
       THEN /\ val' = Nothing /\ wire' = Nothing /\ raw' = Nothing /\ clone' = Nothing
            /\ heap' = Normalize(h, {})
       ELSE /\ val' = v /\ wire' = w /\ raw' = r /\ clone' = c
            /\ heap' = Normalize(h, LiveOf(v, w, r, c))

\* the payload contents of a value
Contents(h, v) == [i \in DOMAIN PayloadSeq(v) |-> h[PayloadSeq(v)[i].ptr]]

NoPre == [v |-> Nothing, bytes |-> <<>>, live |-> {}, args |-> <<>>]

\* a constructor call on vectors the caller has allocated
Construct(op, args, r, h) ==
    /\ pre' = [NoPre EXCEPT !.args = args]
    /\ Finish(op, r.tag, IF r.tag = "Ok" THEN r.v ELSE Nothing, Nothing, Nothing, Nothing, h)
    /\ orig' = IF r.tag = "Ok" THEN [v |-> r.v, bytes |-> Contents(h, r.v)]
               ELSE [v |-> Nothing, bytes |-> <<>>]
    /\ conv' = <<>>

\* a run constructs one value; its vectors are the first allocations
DataVec == 1

SideVec == 2

Fresh ==
    /\ Running /\ last.op = "start" /\ orig.v = Nothing
    /\ val = Nothing /\ wire = Nothing /\ raw = Nothing /\ clone = Nothing

NewBgr8 ==
    /\ Fresh
    /\ \E d \in ImageDatas, w \in Dims, g \in Dims, n \in Names, checked \in BOOLEAN :
          Construct("new_bgr8",
                    [data |-> d, width |-> w, height |-> g, name |-> n, checked |-> checked],
                    new_bgr8(DataVec, Len(d), w, g, n, checked),
                    [heap EXCEPT ![DataVec] = d])

NewRgb8 ==
    /\ Fresh
    /\ \E d \in ImageDatas, w \in Dims, g \in Dims, n \in Names, checked \in BOOLEAN :
          Construct("new_rgb8",
                    [data |-> d, width |-> w, height |-> g, name |-> n, checked |-> checked],
                    new_rgb8(DataVec, Len(d), w, g, n, checked),
                    [heap EXCEPT ![DataVec] = d])

NewGray8 ==
    /\ Fresh
    /\ \E d \in ImageDatas, w \in Dims, g \in Dims, n \in Names, checked \in BOOLEAN :
          Construct("new_gray8",
                    [data |-> d, width |-> w, height |-> g, name |-> n, checked |-> checked],
                    new_gray8(DataVec, Len(d), w, g, n, checked),
                    [heap EXCEPT ![DataVec] = d])

\* a call that consumes the value and returns a value
Convert(op, r) ==
    /\ Finish(op, r.tag, IF r.tag = "Ok" THEN r.v ELSE Nothing, wire, raw, clone, r.heap)
    /\ pre' = [v |-> val, bytes |-> Contents(heap, val), live |-> Live, args |-> <<>>]
    /\ conv' = Append(conv, op)
    /\ UNCHANGED orig

ImageIntoRgb8 ==
    /\ Running /\ val.kind = "Image" /\ Len(conv) < MaxConv
    /\ LET fresh == Alloc(Free)
       IN  Convert("into_rgb8", Image_into_rgb8(heap, val, fresh))

ImageIntoBgr8 ==
    /\ Running /\ val.kind = "Image" /\ Len(conv) < MaxConv
    /\ LET fresh == Alloc(Free)
       IN  Convert("into_bgr8", Image_into_bgr8(heap, val, fresh))

\* the array round trip is taken by an image no pixel conversion has
\* touched, the only thing the caller holds
ImageIntoNdarray ==
    /\ Running /\ val.kind = "Image" /\ conv = <<>>
    /\ wire = Nothing /\ raw = Nothing /\ clone = Nothing
    /\ LET fresh == Alloc(Free)
       IN  Convert("into_ndarray", Image_into_ndarray(heap, val, fresh))

\* from_ndarray is a constructor call on the array's vector
ImageFromNdarray ==
    /\ Running /\ val.kind = "Ndarray"
    /\ \E checked \in BOOLEAN :
          LET r == Image_from_ndarray(heap, val, checked)
          IN  /\ Finish("from_ndarray", r.tag, IF r.tag = "Ok" THEN r.v ELSE Nothing,
                        wire, raw, clone, heap)
              /\ pre' = [v |-> val, bytes |-> Contents(heap, val), live |-> Live,
                         args |-> <<>>]
              /\ orig' = IF r.tag = "Ok" THEN [v |-> r.v, bytes |-> Contents(heap, r.v)]
                         ELSE [v |-> Nothing, bytes |-> <<>>]
              /\ conv' = <<>>

\* a call that consumes the value and returns a wire record
Encode(r) ==
    /\ Finish("into_arrow", r.tag, Nothing, IF r.tag = "Ok" THEN r.v ELSE Nothing,
              raw, clone, r.heap)
    /\ pre' = NoPre
    /\ UNCHANGED <<orig, conv>>

ImageIntoArrow ==
    /\ Running /\ val.kind = "Image" /\ wire = Nothing /\ raw = Nothing
    /\ LET fresh == Alloc(Free)
       IN  Encode(Image_into_arrow(heap, val, fresh))

\* a call that consumes the wire record and returns a decomposition
Decompose(op, schema, r) ==
    /\ Finish(op, r.tag, val, Nothing,
              IF r.tag = "Ok" THEN [kind |-> "Raw", schema |-> schema, d |-> r.v]
              ELSE Nothing, clone, heap)
    /\ pre' = NoPre
    /\ UNCHANGED <<orig, conv>>

ImageRawData ==
    /\ Running /\ wire.kind = "ArrayData" /\ wire.schema = "Image" /\ raw = Nothing
    /\ Decompose("raw_data", "Image", Image_raw_data(heap, wire))

\* a decoder: from_raw_data consumes the decomposition, view_from_raw_data
\* borrows it, from_arrow consumes the wire record; w and d are the wire
\* record and the decomposition the caller is left with
Decode(op, r, w, d) ==
    /\ Finish(op, r.tag, IF r.tag = "Ok" THEN r.v ELSE Nothing, w, d, clone, heap)
    /\ pre' = NoPre
    /\ UNCHANGED <<orig, conv>>

Shared == clone # Nothing

ImageFromRawData ==
    /\ Running /\ raw.kind = "Raw" /\ raw.schema = "Image" /\ val = Nothing
    /\ Decode("from_raw_data", Image_from_raw_data(heap, raw.d, Shared), wire, Nothing)

ImageViewFromRawData ==
    /\ Running /\ raw.kind = "Raw" /\ raw.schema = "Image" /\ val = Nothing
    /\ Decode("view_from_raw_data", Image_view_from_raw_data(heap, raw.d), wire, raw)

ImageFromArrow ==
    /\ Running /\ wire.kind = "ArrayData" /\ wire.schema = "Image" /\ val = Nothing /\ raw = Nothing
    /\ Decode("from_arrow", Image_from_arrow(heap, wire, Shared), Nothing, raw)

\* ------------------------------------------------------------ BBox steps
NewXyxy ==
    /\ Fresh
    /\ \E d \in BBoxDatas, c \in {[i \in 1..n |-> 98] : n \in 0..MaxBoxes}, l \in Labels :
          Construct("new_xyxy", [data |-> d, confidence |-> c, label |-> l],
                    new_xyxy(DataVec, Len(d), SideVec, Len(c), l),
                    [heap EXCEPT ![DataVec] = d, ![SideVec] = c])

NewXywh ==
    /\ Fresh
    /\ \E d \in BBoxDatas, c \in {[i \in 1..n |-> 98] : n \in 0..MaxBoxes}, l \in Labels :
          Construct("new_xywh", [data |-> d, confidence |-> c, label |-> l],
                    new_xywh(DataVec, Len(d), SideVec, Len(c), l),
                    [heap EXCEPT ![DataVec] = d, ![SideVec] = c])

BBoxIntoXyxy ==
    /\ Running /\ val.kind = "BBox" /\ Len(conv) < MaxConv
    /\ LET fresh == Alloc(Free)
       IN  Convert("into_xyxy", BBox_into_xyxy(heap, val, fresh))

BBoxIntoXywh ==
    /\ Running /\ val.kind = "BBox" /\ Len(conv) < MaxConv
    /\ LET fresh == Alloc(Free)
       IN  Convert("into_xywh", BBox_into_xywh(heap, val, fresh))

BBoxIntoArrow ==
    /\ Running /\ val.kind = "BBox" /\ wire = Nothing /\ raw = Nothing
    /\ LET fresh  == Alloc(Free)
           fresh2 == Alloc(Free \ {fresh})
       IN  Encode(BBox_into_arrow(heap, val, fresh, fresh2))

BBoxFromArrow ==
    /\ Running /\ wire.kind = "ArrayData" /\ wire.schema = "BBox" /\ val = Nothing /\ raw = Nothing
    /\ Decode("from_arrow", BBox_from_arrow(heap, wire, Shared), Nothing, raw)

BBoxViewer ==
    /\ Running /\ wire.kind = "ArrayData" /\ wire.schema = "BBox" /\ raw = Nothing
    /\ Decompose("viewer", "BBox", BBox_viewer(wire))

BBoxViewArrow ==
    /\ Running /\ raw.kind = "Raw" /\ raw.schema = "BBox" /\ val = Nothing
    /\ Decode("view_arrow", BBox_view_arrow(heap, raw.d), wire, raw)

\* ----------------------------------------------------- LaserScan2D steps
LaserScan2DNew ==
    /\ Fresh
    /\ \E d, i \in {<<>>, <<5>>, <<5, 6>>}, n \in {0, 2},
          sc \in {<<0, 10, 1, 0 - 1, 1>>, <<1, 2, 3, 4, 5>>} :
          Construct("new", [ranges |-> d, intensities |-> i, num_beams |-> n, scalars |-> sc],
                    LaserScan2D_new(DataVec, Len(d), SideVec, Len(i), n, sc),
                    [heap EXCEPT ![DataVec] = d, ![SideVec] = i])

LaserScan2DIntoArrow ==
    /\ Running /\ val.kind = "LaserScan2D" /\ wire = Nothing /\ raw = Nothing
    /\ LET fresh  == Alloc(Free)
           fresh2 == Alloc(Free \ {fresh})
       IN  Encode(LaserScan2D_into_arrow(heap, val, fresh, fresh2))

LaserScan2DRawData ==
    /\ Running /\ wire.kind = "ArrayData" /\ wire.schema = "LaserScan2D" /\ raw = Nothing
    /\ Decompose("raw_data", "LaserScan2D", LaserScan2D_raw_data(wire))

LaserScan2DFromRawData ==
    /\ Running /\ raw.kind = "Raw" /\ raw.schema = "LaserScan2D" /\ val = Nothing
    /\ Decode("from_raw_data", LaserScan2D_from_raw_data(heap, raw.d, Shared), wire, Nothing)

LaserScan2DViewFromRawData ==
    /\ Running /\ raw.kind = "Raw" /\ raw.schema = "LaserScan2D" /\ val = Nothing
    /\ Decode("view_from_raw_data", LaserScan2D_view_from_raw_data(heap, raw.d), wire, raw)

LaserScan2DFromArrow ==
    /\ Running /\ wire.kind = "ArrayData" /\ wire.schema = "LaserScan2D" /\ val = Nothing /\ raw = Nothing
    /\ Decode("from_arrow", LaserScan2D_from_arrow(heap, wire, Shared), Nothing, raw)

\* ---------------------------------------------------- ImageInVideo steps
ImageInVideoNew ==
    /\ Fresh
    /\ \E p \in {<<>>, Utf8("v.m")}, t \in {0, 3}, f \in {30}, n \in Names :
          Construct("new", [path |-> p, timestamp |-> t, fps |-> f, name |-> n],
                    ImageInVideo_new(p, t, f, n), heap)

ImageInVideoIntoArrow ==
    /\ Running /\ val.kind = "ImageInVideo" /\ wire = Nothing /\ raw = Nothing
    /\ LET r == ImageInVideo_into_arrow(val)
       IN  Encode([tag |-> r.tag, v |-> r.v, heap |-> heap])

ImageInVideoFromArrow ==
    /\ Running /\ wire.kind = "ArrayData" /\ wire.schema = "ImageInVideo" /\ val = Nothing /\ raw = Nothing
    /\ Decode("from_arrow", ImageInVideo_from_arrow(heap, wire), Nothing, raw)

\* --------------------------------------------- Image, the earlier tree
ImageToArrow ==
    /\ Running /\ val.kind = "Image" /\ val.data.own /\ wire = Nothing /\ raw = Nothing
    /\ LET r == Image_to_arrow(val)
       IN  Finish("to_arrow", r.tag, Nothing, r.v, raw, clone, heap)
    /\ pre' = NoPre
    /\ UNCHANGED <<orig, conv>>

ImageFromUnionArray ==
    /\ Running /\ wire.kind = "ArrayData" /\ wire.schema = "UnionImage"
    /\ val = Nothing /\ raw = Nothing
    /\ Decode("from_union_array", Image_from_union_array(heap, wire), Nothing, raw)

\* ------------------------------------- calls on a held decomposition
\* The caller reads a field of the decomposition it holds, or loads one
\* again. The vector accessors are called on the vector fields of the
\* schemas and on a field no schema has; the one-element buffers of the
\* scalar fields, not tracked by address, are read by primitive_singleton.
IsRecord == raw.kind = "Raw" /\ raw.schema \in {"Record", "RecordView"}

VecFields ==
    IF IsRecord THEN {"a", "b", "nofield"} ELSE {"data", "intensities", "nofield"}

\* the element type the schema gives the vector fields
VecType == IF raw.schema = "Image" THEN "UInt8" ELSE "Float32"

\* the element types T the caller instantiates an accessor with: the one
\* the schema gives the field, and for a record of its own any of the
\* 32-bit types (the elements of the model's vectors are 32-bit patterns)
ElemTypes(f) ==
    IF IsRecord THEN {"UInt32", "Float32"}
    ELSE IF f = "width" THEN {"UInt32"}
    ELSE IF f = "length" THEN {"UInt64"}
    ELSE {VecType}

\* a call on the decomposition: v is what it returns, d the decomposition
\* it leaves; pre keeps the field asked for
Access(op, field, t, r, v, d) ==
    /\ Finish(op, r.tag, IF r.tag = "Ok" THEN v ELSE Nothing, wire, d, clone, heap)
    /\ pre' = [NoPre EXCEPT !.args = [field |-> field, t |-> t]]
    /\ UNCHANGED <<orig, conv>>

IsRawData == raw.kind = "Raw" /\ raw.schema \in {"Image", "LaserScan2D", "Record"}

IsViewer == raw.kind = "Raw" /\ raw.schema \in {"BBox", "RecordView"}

RawPrimitiveArray ==
    /\ Running /\ IsRawData /\ val = Nothing
    /\ \E f \in VecFields : \E t \in ElemTypes(f) :
          LET r == primitive_array(raw.d, t, f, Shared)
          IN  Access("primitive_array", f, t, r, [kind |-> "Vec", data |-> Owned(r.v)],
                     [raw EXCEPT !.d = r.raw])

RawPrimitiveArrayView ==
    /\ Running /\ (IsRawData \/ IsViewer) /\ val = Nothing
    /\ \E f \in VecFields : \E t \in ElemTypes(f) :
          LET r == IF IsViewer
                   THEN ArrowDataViewer_primitive_array(raw.d, t, f)
                   ELSE primitive_array_view(raw.d, t, f)
          IN  Access("primitive_array_view", f, t, r,
                     [kind |-> "Vec", data |-> Borrowed(r.v)], raw)

RawPrimitiveSingleton ==
    /\ Running /\ IsRawData /\ val = Nothing
    /\ \E f \in IF IsRecord THEN VecFields ELSE {"data", "width", "length", "nofield"} :
       \E t \in ElemTypes(f) :
          LET r == primitive_singleton(heap, raw.d, t, f)
          IN  Access("primitive_singleton", f, t, r, [kind |-> "Scalar", v |-> r.v], raw)

UtfFields == IF IsRecord THEN VecFields ELSE {"encoding", "label", "nofield"}

\* load_primitive and load_utf take the decomposition by value: the caller
\* is left with what they return
RawLoadPrimitive ==
    /\ Running /\ (IsRawData \/ IsViewer) /\ val = Nothing
    /\ \E f \in VecFields : \E t \in ElemTypes(f) :
          LET r == IF IsViewer
                   THEN ArrowDataViewer_load_primitive(raw.d, t, f)
                   ELSE load_primitive(raw.d, t, f)
          IN  Access("load_primitive", f, t, r, Nothing,
                     IF r.tag = "Ok" THEN [raw EXCEPT !.d = r.v] ELSE Nothing)

RawLoadUtf ==
    /\ Running /\ (IsRawData \/ IsViewer) /\ val = Nothing
    /\ \E f \in UtfFields :
          LET r == IF IsViewer
                   THEN ArrowDataViewer_load_utf8(raw.d, f)
                   ELSE load_utf(raw.d, f)
          IN  Access("load_utf", f, "Utf8", r, Nothing,
                     IF r.tag = "Ok" THEN [raw EXCEPT !.d = r.v] ELSE Nothing)

\* the string readers, called on the caller's own records
RawUtf8Array ==
    /\ Running /\ IsRecord /\ val = Nothing
    /\ \E f \in UtfFields :
          LET r == IF IsViewer
                   THEN ArrowDataViewer_utf8_array(raw.d, f)
                   ELSE utf8_array(heap, raw.d, f)
          IN  Access("utf8_array", f, "Utf8", r, [kind |-> "Strings", v |-> r.v], raw)

RawUtf8Singleton ==
    /\ Running /\ IsRecord /\ val = Nothing
    /\ \E f \in UtfFields :
          LET r == IF IsViewer
                   THEN ArrowDataViewer_utf8_singleton(heap, raw.d, f)
                   ELSE utf8_singleton(heap, raw.d, f)
          IN  Access("utf8_singleton", f, "Utf8", r, [kind |-> "Strings", v |-> <<r.v>>], raw)

\* ---------------------------------------------------- the caller's records
\* string lists: those of Labels, and the list of one empty string
StringLists == Labels \cup {<<<<>>>>}

\* what a caller pushes under a name: a list of strings, or the one string,
\* vector or number as a list of one sequence
Pushes ==
    {[field |-> f, kind |-> k.kind, t |-> k.t, value |-> k.value] :
        f \in {"a", "b"},
        k \in {[kind |-> "utf_array", t |-> "Utf8", value |-> ss] : ss \in StringLists}
              \cup {[kind |-> "utf_singleton", t |-> "Utf8", value |-> <<Utf8("cam")>>],
                    [kind |-> "utf_singleton", t |-> "Utf8", value |-> <<Utf8("cat")>>],
                    [kind |-> "primitive_array", t |-> "Float32", value |-> <<<<1, 2>>>>],
                    [kind |-> "primitive_singleton", t |-> "UInt32", value |-> <<<<7>>>>]}}

\* records of one field, and records of two fields (under equal names too)
\* that are strings or vectors
PushLists ==
    {<<p>> : p \in Pushes}
        \cup {<<p, q>> : p, q \in {x \in Pushes :
                                     x.kind \in {"utf_singleton", "primitive_array"}}}

\* the caller fills a builder and builds the wire record
RecordBuild ==
    /\ Fresh
    /\ \E api \in {"FastFormatArrowBuilder", "ArrowDataBuilder"}, ps \in PushLists :
          LET r == BuildRecord(api, ps)
          IN  /\ Finish("build", r.tag, Nothing, r.v, Nothing, Nothing,
                        [a \in 1..NumAddrs |->
                            IF a \in DOMAIN ps /\ ps[a].kind = "primitive_array"
                            THEN ps[a].value[1] ELSE <<>>])
              /\ pre' = [NoPre EXCEPT !.args = [api |-> api]]
              /\ orig' = [v |-> [kind |-> "Record", pushes |-> ps], bytes |-> <<>>]
              /\ conv' = <<>>

\* FastFormatArrowRawData::new or ArrowDataViewer::new on a record
RecordNew ==
    /\ Running /\ wire.kind = "ArrayData" /\ wire.schema = "Record" /\ raw = Nothing
    /\ \/ Decompose("new", "Record", FastFormatArrowRawData_new(wire))
       \/ Decompose("new", "RecordView", ArrowDataViewer_new(wire))

\* ------------------------------------------------------ received records
\* Wire records that another producer built, which the decoders and readers
\* accept like any ArrayData: a string field whose offsets decrease, one
\* whose offset lies past its bytes, one whose bytes are not UTF-8, an
\* RGB8 image of 1 x 1 pixels with two bytes of pixel data (in the
\* receiver's first allocation), and an RGB8 image of 2 x 1 pixels whose
\* fields were pushed in another order than Image::into_arrow pushes them.
ForeignRecords ==
    {[wire |-> Builder_into_arrow(BuilderPush(FastFormatArrowBuilder_new, "a", a),
                                  "Record").v,
      data |-> <<>>] :
        a \in {Array("Utf8", InlBuf(Utf8("cat")), <<0, 2, 1>>),
               Array("Utf8", InlBuf(Utf8("cat")), <<0, 5>>),
               Array("Utf8", InlBuf(<<255>>), <<0, 1>>)}}
    \cup {[wire |-> Image_into_arrow([a \in {DataVec} |-> d],
                                     Image(Owned(DataVec), U32(1), U32(1), "RGB8", None),
                                     DataVec).v,
           data |-> d] : d \in {<<0, 1>>}}
    \cup {[wire |-> Builder_into_arrow(
                       push_primitive_singleton(
                         push_primitive_singleton(
                           push_utf_singleton(
                             push_utf_singleton(
                               push_primitive_array(FastFormatArrowBuilder_new,
                                                    "UInt8", "data", DataVec),
                               "name", Utf8("cam")),
                             "encoding", Utf8("RGB8")),
                           "UInt32", "height", U32(1)),
                         "UInt32", "width", U32(2)),
                       "Image").v,
           data |-> d] : d \in {<<0, 1, 2, 3, 4, 5>>}}

Receive ==
    /\ Fresh
    /\ \E m \in ForeignRecords :
          /\ Finish("receive", "Ok", Nothing, m.wire, Nothing, Nothing,
                    [heap EXCEPT ![DataVec] = m.data])
          /\ pre' = NoPre
          /\ orig' = [v |-> [kind |-> "Received", wire |-> m.wire], bytes |-> <<>>]
          /\ conv' = <<>>

\* ------------------------------------------------------- the caller's moves
Keep(op, v, w, r, c) ==
    /\ Finish(op, "Ok", v, w, r, c, heap)
    /\ pre' = NoPre
    /\ UNCHANGED <<orig, conv>>

\* the host's handle on an image made by the binding's constructors, and
\* what the last method call on it returned
Handle(image, out) == [kind |-> "PyImage", image |-> image, out |-> out]

\* #[pyfunction] new_rgb8, new_bgr8, new_gray8
PyNew ==
    /\ Fresh
    /\ \E ctor \in {"new_bgr8", "new_rgb8", "new_gray8"} :
       \E d \in ImageDatas, w \in Dims, g \in Dims, n \in Names, checked \in BOOLEAN :
          LET r == CASE ctor = "new_bgr8" -> new_bgr8(DataVec, Len(d), w, g, n, checked)
                     [] ctor = "new_rgb8" -> new_rgb8(DataVec, Len(d), w, g, n, checked)
                     [] ctor = "new_gray8" -> new_gray8(DataVec, Len(d), w, g, n, checked)
              p == IF r.tag = "Ok" THEN Handle(Some(r.v), Nothing) ELSE Nothing
          IN  /\ Finish("PyImage.new", r.tag, p, Nothing, Nothing, Nothing,
                        [heap EXCEPT ![DataVec] = d])
              /\ pre' = [NoPre EXCEPT !.args = [ctor |-> ctor, data |-> d, width |-> w,
                                                height |-> g, name |-> n,
                                                checked |-> checked]]
              /\ orig' = [v |-> p, bytes |-> <<>>]
              /\ conv' = <<>>

\* name, width, height, as_ptr: the handle is read through a reference
PyImageRead ==
    /\ Running /\ val.kind = "PyImage"
    /\ \E m \in {"PyImage.name", "PyImage.width", "PyImage.height", "PyImage.as_ptr"} :
          LET r == CASE m = "PyImage.name" -> PyImage_name(val)
                     [] m = "PyImage.width" -> PyImage_width(val)
                     [] m = "PyImage.height" -> PyImage_height(val)
                     [] m = "PyImage.as_ptr" -> PyImage_as_ptr(val)
          IN  /\ Finish(m, r.tag, IF r.tag = "Ok" THEN Handle(val.image, r.v) ELSE Nothing,
                        wire, raw, clone, heap)
              /\ pre' = [NoPre EXCEPT !.args = [self |-> val]]
              /\ UNCHANGED <<orig, conv>>

\* the methods that move the image out of the handle
TakeMethods == {"PyImage.into_rgb8", "PyImage.into_bgr8", "PyImage.into_arrow"}

\* into_rgb8, into_bgr8, into_arrow: take() leaves None in the handle
\* whatever the image's method then returns
PyImageTake ==
    /\ Running /\ val.kind = "PyImage"
    /\ \E m \in TakeMethods :
          LET fresh == Alloc(Free)
              r == CASE m = "PyImage.into_rgb8" -> PyImage_into_rgb8(heap, val, fresh)
                     [] m = "PyImage.into_bgr8" -> PyImage_into_bgr8(heap, val, fresh)
                     [] m = "PyImage.into_arrow" -> PyImage_into_arrow(heap, val, fresh)
          IN  /\ Finish(m, r.tag, Handle(None, IF r.tag = "Ok" THEN r.v ELSE Nothing),
                        wire, raw, clone, r.heap)
              /\ pre' = [NoPre EXCEPT !.args = [self |-> val]]
              /\ UNCHANGED <<orig, conv>>

CloneWire ==
    /\ Running /\ wire # Nothing /\ clone = Nothing
    /\ Keep("clone", val, wire, raw, wire)

DropClone ==
    /\ Running /\ clone # Nothing
    /\ Keep("drop_clone", val, wire, raw, Nothing)

\* the caller goes on with the clone it kept
TakeClone ==
    /\ Running /\ clone # Nothing /\ wire = Nothing /\ raw = Nothing /\ val = Nothing
    /\ Keep("take_clone", val, clone, raw, Nothing)

DropVal ==
    /\ Running /\ val # Nothing /\ raw # Nothing
    /\ Keep("drop", Nothing, wire, raw, clone)

DropRaw ==
    /\ Running /\ raw # Nothing /\ \A c \in Range(PayloadSeq(val)) : c.own
    /\ Keep("drop_raw", val, wire, Nothing, clone)

Init ==
    /\ heap = [a \in (1..NumAddrs) |-> <<>>]
    /\ val = Nothing /\ wire = Nothing /\ raw = Nothing /\ clone = Nothing
    /\ last = [op |-> "start", res |-> "Ok"]
    /\ pre = NoPre
    /\ orig = [v |-> Nothing, bytes |-> <<>>]
    /\ conv = <<>>

Next ==
    \/ NewBgr8 \/ NewRgb8 \/ NewGray8
    \/ ImageIntoRgb8 \/ ImageIntoBgr8 \/ ImageIntoNdarray \/ ImageFromNdarray
    \/ ImageIntoArrow \/ ImageRawData
    \/ ImageFromRawData \/ ImageViewFromRawData \/ ImageFromArrow
    \/ NewXyxy \/ NewXywh \/ BBoxIntoXyxy \/ BBoxIntoXywh
    \/ BBoxIntoArrow \/ BBoxFromArrow \/ BBoxViewer \/ BBoxViewArrow
    \/ LaserScan2DNew \/ LaserScan2DIntoArrow \/ LaserScan2DRawData
    \/ LaserScan2DFromRawData \/ LaserScan2DViewFromRawData \/ LaserScan2DFromArrow
    \/ ImageInVideoNew \/ ImageInVideoIntoArrow \/ ImageInVideoFromArrow
    \/ ImageToArrow \/ ImageFromUnionArray
    \/ RawPrimitiveArray \/ RawPrimitiveArrayView \/ RawPrimitiveSingleton
    \/ RawLoadPrimitive \/ RawLoadUtf \/ RawUtf8Array \/ RawUtf8Singleton
    \/ RecordBuild \/ RecordNew \/ Receive
    \/ PyNew \/ PyImageRead \/ PyImageTake
    \/ CloneWire \/ DropClone \/ TakeClone \/ DropVal \/ DropRaw

Spec == Init /\ [][Next]_vars

\* ----------------------------------------------------------------- claims
\* a value with its payload buffers replaced by their contents
FieldsOf(v, bytes) ==
    CASE v.kind = "Image" -> [v EXCEPT !.data = bytes[1]]
      [] v.kind = "BBox" -> [v EXCEPT !.data = bytes[1], !.confidence = bytes[2]]
      [] v.kind = "LaserScan2D" -> [v EXCEPT !.data = bytes[1], !.intensities = bytes[2]]
      [] OTHER -> v

Decoded == FieldsOf(val, Contents(heap, val))

Constructed == FieldsOf(orig.v, orig.bytes)

\* from_arrow has just been called on the encoding of an unconverted Image,
\* LaserScan2D or ImageInVideo, the wire record having no other clone
RoundTripped ==
    /\ last.op = "from_arrow" /\ conv = <<>> /\ clone = Nothing
    /\ orig.v.kind \in {"Image", "LaserScan2D", "ImageInVideo"}

\* C1 as the specification states it: from_arrow(into_arrow(v)) succeeds
\* and returns a value equal to v in every field, whatever the name is.
C1_RoundTripAsStated == RoundTripped => last.res = "Ok" /\ Decoded = Constructed

\* the empty name comes back as no name
NameRead(f) ==
    IF "name" \in DOMAIN f /\ f.name = Some(<<>>) THEN [f EXCEPT !.name = None] ELSE f

\* C1: from_arrow(into_arrow(v)) succeeds and returns a value equal to v in
\* payload, width/height or scalar fields and encoding tag; its name equals
\* v's name, except that a name of Some("") comes back as None.
C1_RoundTrip == RoundTripped => last.res = "Ok" /\ Decoded = NameRead(Constructed)

\* an Image with pixels and the empty name has made the round trip
C1_Witness ==
    /\ RoundTripped /\ last.res = "Ok" /\ orig.v.kind = "Image"
    /\ orig.v.name = Some(<<>>) /\ Len(orig.bytes[1]) = 6 /\ val.name = None

\* from_arrow has just decoded the encoding of an unconverted Image or BBox
DecodedOwned ==
    /\ last.op = "from_arrow" /\ last.res = "Ok" /\ conv = <<>>
    /\ orig.v.kind \in {"Image", "BBox"}

\* C2: a value built from vectors, encoded with into_arrow and decoded with
\* from_arrow (Image, BBox) owns the very buffers the caller's vectors
\* were, with their contents, and no other buffer has been allocated.
C2_ZeroCopyOwned ==
    DecodedOwned =>
        /\ PayloadSeq(val) = PayloadSeq(orig.v)
        /\ \A c \in Range(PayloadSeq(val)) : c.own
        /\ Contents(heap, val) = orig.bytes
        /\ Live = AddrsOfVal(orig.v)

\* an Image of six bytes has been decoded into the vector it was built from
C2_Witness ==
    /\ DecodedOwned /\ val.kind = "Image" /\ val.data = Owned(DataVec)
    /\ Len(heap[DataVec]) = 6

\* view_from_raw_data has just decoded the encoding of an unconverted Image
Viewed ==
    /\ last.op = "view_from_raw_data" /\ last.res = "Ok" /\ conv = <<>>
    /\ orig.v.kind = "Image"

\* C3: after into_arrow, raw_data and view_from_raw_data, with no
\* conversion applied, the viewed Image borrows the buffer the image was
\* constructed from, which the decomposition still holds, contents intact.
C3_ZeroCopyView ==
    Viewed =>
        /\ val.data = Borrowed(orig.v.data.ptr)
        /\ val.data.ptr \in AddrsOfRaw(raw)
        /\ heap[val.data.ptr] = orig.bytes[1]
        /\ Live = {orig.v.data.ptr}

\* a view of a six-byte Image borrows the constructor's vector
C3_Witness == Viewed /\ val.data = Borrowed(DataVec) /\ Len(heap[DataVec]) = 6

\* a conversion has just succeeded that rewrites the payload
Mutated ==
    /\ pre.v # Nothing /\ last.res = "Ok"
    /\ \/ last.op = "into_rgb8" /\ pre.v.encoding = "BGR8"
       \/ last.op = "into_bgr8" /\ pre.v.encoding = "RGB8"
       \/ last.op = "into_xyxy" /\ pre.v.encoding = "XYWH"
       \/ last.op = "into_xywh" /\ pre.v.encoding = "XYXY"

C5_InPlace ==
    pre.v # Nothing /\ last.res = "Ok" /\ pre.v.data.own =>
        /\ val.data = pre.v.data
        /\ Live \subseteq pre.live

\* a second conversion in a row has rewritten an owned payload in place
C5_Witness ==
    /\ Mutated /\ pre.v.data.own /\ Len(conv) = 2
    /\ val.data = pre.v.data /\ heap[val.data.ptr] # pre.bytes[1]

\* a BBox conversion has just been applied for the second time in a row
Repeated ==
    /\ pre.v.kind = "BBox" /\ Len(conv) >= 2
    /\ conv[Len(conv)] = conv[Len(conv) - 1]

\* C6: for every BBox built by new_xywh or new_xyxy, applying into_xyxy
\* (or into_xywh) a second time succeeds and returns what the first
\* application returned, in data, confidence, label and encoding tag.
C6_Idempotent ==
    Repeated => last.res = "Ok" /\ Decoded = FieldsOf(pre.v, pre.bytes)

\* the two conversions the round trip of a box list is made of
BoxRoundTrip ==
    /\ orig.v.kind = "BBox"
    /\ \/ orig.v.encoding = "XYWH" /\ conv = <<"into_xyxy", "into_xywh">>
       \/ orig.v.encoding = "XYXY" /\ conv = <<"into_xywh", "into_xyxy">>

\* C7: for every BBox with integral coordinates built by new_xywh,
\* into_xyxy followed by into_xywh returns exactly the original data, and
\* for one built by new_xyxy so does into_xywh followed by into_xyxy.
C7_BoxRoundTrip ==
    BoxRoundTrip /\ pre.v # Nothing =>
        last.res = "Ok" /\ heap[val.data.ptr] = orig.bytes[1]

\* a conversion has just been called on a box list of the other convention
BoxConverted ==
    /\ pre.v.kind = "BBox"
    /\ \/ last.op = "into_xyxy" /\ pre.v.encoding = "XYWH"
       \/ last.op = "into_xywh" /\ pre.v.encoding = "XYXY"

\* what the conversion makes of value k (from 1) of the data
BoxValue(op, old, k) ==
    IF k % 4 = 1 \/ k % 4 = 2 THEN old[k]
    ELSE IF op = "into_xyxy" THEN F32Add(old[k - 2], old[k])
    ELSE F32Sub(old[k], old[k - 2])

\* C8: into_xyxy on a BBox tagged XYWH maps every box (x,y,w,h) to
\* (x,y,x+w,y+h), into_xywh on one tagged XYXY maps every box (x1,y1,x2,y2)
\* to (x1,y1,x2-x1,y2-y1), in f32 arithmetic; confidence and label are
\* unchanged and the call succeeds.
C8_BoxFormula ==
    BoxConverted =>
        /\ last.res = "Ok"
        /\ heap[val.data.ptr] =
              [k \in 1..Len(pre.bytes[1]) |-> BoxValue(last.op, pre.bytes[1], k)]
        /\ heap[val.confidence.ptr] = pre.bytes[2]
        /\ val.label = pre.v.label

\* two XYXY boxes have been converted to XYWH
C8_Witness ==
    /\ BoxConverted /\ last.op = "into_xywh" /\ last.res = "Ok"
    /\ Len(pre.bytes[1]) = 8 /\ heap[val.data.ptr] # pre.bytes[1]

\* a colour conversion has just been called on an image of the other order
Swapped ==
    /\ pre.v.kind = "Image"
    /\ \/ last.op = "into_rgb8" /\ pre.v.encoding = "BGR8"
       \/ last.op = "into_bgr8" /\ pre.v.encoding = "RGB8"

\* C9: for every BGR8 image, into_rgb8 returns an RGB8 image whose data has
\* bytes i and i+2 of every triple exchanged and byte i+1 unchanged, with
\* width, height, name and data length unchanged; into_bgr8 likewise on an
\* RGB8 image, returning BGR8.
C9_PixelSwap ==
    Swapped =>
        /\ last.res = "Ok"
        /\ val.encoding = (IF last.op = "into_rgb8" THEN "RGB8" ELSE "BGR8")
        /\ val.width = pre.v.width /\ val.height = pre.v.height
        /\ val.name = pre.v.name
        /\ heap[val.data.ptr] =
              [k \in 1..Len(pre.bytes[1]) |->
                  IF k % 3 = 1 THEN pre.bytes[1][k + 2]
                  ELSE IF k % 3 = 0 THEN pre.bytes[1][k - 2]
                  ELSE pre.bytes[1][k]]

\* into_rgb8 then into_bgr8 have been applied to a BGR8 image whose data
\* length is a multiple of 3
SwappedBack ==
    /\ orig.v.kind = "Image" /\ orig.v.encoding = "BGR8"
    /\ Len(orig.bytes[1]) % 3 = 0
    /\ conv = <<"into_rgb8", "into_bgr8">> /\ last.op = "into_bgr8"

\* C10: for every BGR8 image whose data length is a multiple of 3,
\* into_rgb8 followed by into_bgr8 succeeds and returns a BGR8 image whose
\* pixel bytes equal the original bytes.
C10_SwapInvolution ==
    SwappedBack =>
        /\ last.res = "Ok" /\ val.encoding = "BGR8"
        /\ heap[val.data.ptr] = orig.bytes[1]

\* a six-byte BGR8 image has been swapped to RGB8 and back
C10_Witness ==
    /\ SwappedBack /\ last.res = "Ok" /\ Len(orig.bytes[1]) = 6
    /\ pre.bytes[1] # orig.bytes[1]

\* a colour conversion has just been called on an image that has the
\* target encoding already
SameEncoding ==
    /\ pre.v.kind = "Image"
    /\ \/ last.op = "into_rgb8" /\ pre.v.encoding = "RGB8"
       \/ last.op = "into_bgr8" /\ pre.v.encoding = "BGR8"

\* C11: a conversion of an image to the encoding it already has succeeds
\* and returns the value unchanged, in the same buffer with the same
\* owned/borrowed status, its bytes intact and nothing allocated; and a
\* successful into_rgb8 (into_bgr8) returns encoding RGB8 (BGR8), so that a
\* second application returns what the first returned.
C11_ImageIdempotent ==
    /\ SameEncoding =>
          /\ last.res = "Ok" /\ val = pre.v
          /\ Contents(heap, val) = pre.bytes
          /\ Live = pre.live
    /\ (pre.v.kind = "Image" /\ last.op \in {"into_rgb8", "into_bgr8"}
          /\ last.res = "Ok") =>
          val.encoding = (IF last.op = "into_rgb8" THEN "RGB8" ELSE "BGR8")

\* into_rgb8 has been applied a second time, to a borrowed six-byte view
C11_Witness ==
    /\ SameEncoding /\ conv = <<"into_rgb8", "into_rgb8">>
    /\ ~val.data.own /\ Len(heap[val.data.ptr]) = 6

\* C12: into_rgb8 and into_bgr8 on a GRAY8 image return an error and no
\* image; and whatever calls have been made, the image held is GRAY8
\* exactly when the image constructed was.
C12_Unsupported ==
    /\ (pre.v.kind = "Image" /\ pre.v.encoding = "GRAY8"
          /\ last.op \in {"into_rgb8", "into_bgr8"}) =>
          last.res = "Err" /\ val = Nothing
    /\ (val.kind = "Image" /\ orig.v.kind = "Image") =>
          (val.encoding = "GRAY8" <=> orig.v.encoding = "GRAY8")

\* into_bgr8 has been refused on a GRAY8 image of 2 x 2 pixels
C12_Witness ==
    /\ pre.v.kind = "Image" /\ pre.v.encoding = "GRAY8" /\ last.op = "into_bgr8"
    /\ last.res = "Err" /\ Len(pre.bytes[1]) = 4

\* a BBox constructor has just been called
BBoxConstructed == last.op \in {"new_xyxy", "new_xywh"}

\* the lengths of the arguments do not match
BBoxMismatch ==
    \/ Len(pre.args.confidence) # Len(pre.args.label)
    \/ Len(pre.args.data) # 4 * Len(pre.args.confidence)

\* C13: new_xyxy and new_xywh return an error exactly when
\* confidence.len() != label.len() or data.len() != 4 * confidence.len(),
\* and otherwise a BBox that holds the given data, confidence and label
\* with the constructor's encoding tag.
C13_BBoxValidation ==
    BBoxConstructed =>
        /\ last.res = (IF BBoxMismatch THEN "Err" ELSE "Ok")
        /\ last.res = "Ok" =>
              /\ val.kind = "BBox"
              /\ val.data.own /\ heap[val.data.ptr] = pre.args.data
              /\ val.confidence.own /\ heap[val.confidence.ptr] = pre.args.confidence
              /\ val.label = pre.args.label
              /\ val.encoding = (IF last.op = "new_xyxy" THEN "XYXY" ELSE "XYWH")

\* new_xywh has refused two boxes with two confidences and one label
C13_Witness ==
    /\ last.op = "new_xywh" /\ last.res = "Err"
    /\ Len(pre.args.data) = 8 /\ Len(pre.args.confidence) = 2
    /\ Len(pre.args.label) = 1

\* an Image constructor has just been called
ImageConstructed == last.op \in {"new_bgr8", "new_rgb8", "new_gray8"}

\* data.len() equals width * height * channels as mathematical integers:
\* neither product leaves the u32 range and the result is the length
ExactSize ==
    LET p1 == MulU32(pre.args.width, pre.args.height)
        p2 == MulU32(p1.wrapped, U32(IF last.op = "new_gray8" THEN 1 ELSE 3))
    IN  ~p1.overflow /\ ~p2.overflow /\ p2.wrapped = U32(Len(pre.args.data))

\* C14: new_bgr8 and new_rgb8 accept the data exactly when data.len()
\* equals width * height * 3, and new_gray8 exactly when it equals
\* width * height, the products being mathematical integers; every other
\* buffer is rejected with an error, and no call aborts.
C14_ImageValidation ==
    ImageConstructed => last.res = (IF ExactSize THEN "Ok" ELSE "Err")

\* the fields the accessors are called on
ReadFields == VecFields \cup {"width", "length"}

\* the field is gone from the decomposition: not loaded, nor left to load
Gone(r, f) == f \notin DOMAIN r.d.buffers /\ f \notin DOMAIN r.d.array_data

\* one of the three readers of a loaded field has just been called
ReaderCalled ==
    last'.op \in {"primitive_array", "primitive_array_view", "primitive_singleton"}

\* what a step does to the fields of the decomposition
SlotStep ==
    /\ last'.op = "primitive_array" /\ last'.res = "Ok" =>
          /\ Gone(raw', pre'.args.field)
          /\ \A g \in DOMAIN raw.d.buffers \ {pre'.args.field} :
                g \in DOMAIN raw'.d.buffers /\ raw'.d.buffers[g] = raw.d.buffers[g]
          /\ raw'.d.offset_buffers = raw.d.offset_buffers
    /\ raw.kind = "Raw" /\ raw'.kind = "Raw" =>
          \A f \in ReadFields : Gone(raw, f) => Gone(raw', f)
    /\ ReaderCalled /\ Gone(raw, pre'.args.field) => last'.res = "Err"

\* C15: when primitive_array(f) succeeds the decomposition loses f and
\* keeps every other loaded field as it was; a field that is gone never
\* comes back; and primitive_array, primitive_array_view and
\* primitive_singleton on a field that is gone fail with an error.
C15_SlotConsumed == [][SlotStep]_vars

\* primitive_array_view("data") has failed on the decomposition of an
\* Image whose data primitive_array has taken; width is still loaded
C15_Witness ==
    /\ last.op = "primitive_array_view" /\ last.res = "Err"
    /\ pre.args.field = "data" /\ raw.kind = "Raw" /\ raw.schema = "Image"
    /\ Gone(raw, "data") /\ "width" \in DOMAIN raw.d.buffers

\* C16: primitive_array(f) fails whenever another clone of the wire record
\* is alive, and the vector it returns is owned and is memory that neither
\* the decomposition, nor the wire record, nor any clone still references.
C16_ExclusiveReclaim ==
    last.op = "primitive_array" =>
        /\ clone # Nothing => last.res = "Err" /\ val = Nothing
        /\ last.res = "Ok" =>
              /\ val.data.own
              /\ val.data.ptr \notin
                    AddrsOfRaw(raw) \cup AddrsOfWire(wire) \cup AddrsOfWire(clone)

\* primitive_array("data") has been refused while a clone of the wire
\* record of a six-byte Image was alive; the buffer is back in the map
C16_Witness ==
    /\ last.op = "primitive_array" /\ last.res = "Err" /\ clone # Nothing
    /\ pre.args.field = "data" /\ "data" \in DOMAIN raw.d.buffers
    /\ raw.d.buffers["data"].buf.ptr \in AddrsOfWire(clone)
    /\ Len(heap[raw.d.buffers["data"].buf.ptr]) = 6

\* C17: every decode path that makes an owned vector of a wire record's
\* pixel buffer fails unless the buffer has exactly one reference: in no
\* reachable state does an Image own as its vector a buffer that another
\* handle still references.
C17_NoUncheckedReclaim == ~Aliased

\* a load of a field that is loaded already succeeds and changes nothing
LoadStep ==
    /\ last'.op \in {"load_primitive", "load_utf"}
    /\ pre'.args.field \in DOMAIN raw.d.buffers
    => last'.res = "Ok" /\ raw' = raw

\* C18: load_primitive(f), load_utf8(f) or load_utf(f) called on a field
\* that is already loaded succeeds and leaves the decomposition as it was
\* after the first load, the field still available to the readers.
C18_LoadIdempotent == [][LoadStep]_vars

\* primitive_array_view (ArrowDataViewer::primitive_array) is called on a
\* field that is loaded
ViewStep ==
    /\ last'.op = "primitive_array_view"
    /\ pre'.args.field \in DOMAIN raw.d.buffers
    => /\ last'.res = "Ok"
       /\ val' = [kind |-> "Vec",
                  data |-> Borrowed(raw.d.buffers[pre'.args.field].buf.ptr)]
       /\ raw' = raw /\ heap' = heap /\ clone' = clone

\* C19: for a loaded primitive field, primitive_array_view
\* (ArrowDataViewer::primitive_array) succeeds on every call, with or
\* without other holders of the buffer, returns a borrow of the loaded
\* buffer itself, allocates and frees nothing and leaves the decomposition
\* unchanged.
C19_ViewNonDestructive == [][ViewStep]_vars

\* the data of two boxes has been viewed through a BBox viewer while a
\* clone of the wire record is alive
C19_Witness ==
    /\ last.op = "primitive_array_view" /\ last.res = "Ok" /\ clone # Nothing
    /\ raw.kind = "Raw" /\ raw.schema = "BBox" /\ pre.args.field = "data"
    /\ val.data = Borrowed(raw.d.buffers["data"].buf.ptr)
    /\ Len(heap[val.data.ptr]) = 8

\* C20: for every BBox b built by a constructor, BBox::viewer on
\* into_arrow(b) followed by BBox::view_arrow succeeds and returns a BBox
\* that borrows b's data buffer, contents intact, with b's confidence,
\* label and encoding.
C20_BBoxView ==
    last.op = "view_arrow" /\ conv = <<>> /\ orig.v.kind = "BBox" =>
        /\ last.res = "Ok"
        /\ val.data = Borrowed(orig.v.data.ptr)
        /\ heap[val.data.ptr] = orig.bytes[1]
        /\ heap[val.confidence.ptr] = orig.bytes[2]
        /\ val.label = orig.v.label /\ val.encoding = orig.v.encoding

\* C28: the result of a successful into_xywh has encoding XYWH and the
\* result of a successful into_xyxy has encoding XYXY, so that after any
\* sequence of conversions the tag names the convention the data is in.
C28_TagTracksData ==
    pre.v.kind = "BBox" /\ last.res = "Ok" =>
        val.encoding = (IF last.op = "into_xywh" THEN "XYWH" ELSE "XYXY")

\* a primitive_array that fails leaves the decomposition as it was, and
\* primitive_array on a loaded field succeeds when no clone is alive
ReclaimStep ==
    /\ last'.op = "primitive_array" /\ last'.res = "Err" =>
          raw' = raw /\ heap' = heap /\ val' = Nothing
    /\ /\ last'.op = "primitive_array" /\ clone = Nothing
       /\ pre'.args.field \in DOMAIN raw.d.buffers
       /\ raw.d.buffers[pre'.args.field].buf.ptr # 0
       => last'.res = "Ok"

\* C29: a primitive_array(f) that fails because the buffer is shared
\* leaves the decomposition exactly as it was, the buffer of f still
\* registered, and primitive_array(f) succeeds once no competing
\* reference is left.
C29_FailedReclaim == [][ReclaimStep]_vars

\* primitive_array("intensities") has been refused on the decomposition
\* of a LaserScan2D while a clone of the wire record was alive
C29_Witness ==
    /\ last.op = "primitive_array" /\ last.res = "Err" /\ clone # Nothing
    /\ raw.kind = "Raw" /\ raw.schema = "LaserScan2D"
    /\ pre.args.field = "intensities"
    /\ "intensities" \in DOMAIN raw.d.buffers
    /\ Len(heap[raw.d.buffers["intensities"].buf.ptr]) = 2

\* the caller built a record of its own and holds its decomposition
OwnRecord == orig.v.kind = "Record" /\ raw.kind = "Raw" /\ raw.schema = "Record"

\* the positions at which the record's builder was given the name f
PushedAt(f) == {i \in DOMAIN orig.v.pushes : orig.v.pushes[i].field = f}

\* C21: a list of strings pushed with push_utf_array / push_utf8_array under
\* a name, built, decomposed and loaded with load_utf comes back from
\* utf8_array as the same strings in the same order, the empty list and
\* empty strings included.
C21_Utf8RoundTrip ==
    /\ OwnRecord /\ last.op = "utf8_array"
    /\ pre.args.field \in DOMAIN raw.d.offset_buffers
    => \A i \in PushedAt(pre.args.field) :
          PushedAt(pre.args.field) = {i} /\ orig.v.pushes[i].kind = "utf_array"
          => last.res = "Ok" /\ val = [kind |-> "Strings", v |-> orig.v.pushes[i].value]

C21_Witness ==
    /\ OwnRecord /\ last.op = "utf8_array" /\ last.res = "Ok"
    /\ pre.args.field = "a"
    /\ orig.v.pushes = <<[field |-> "a", kind |-> "utf_array", t |-> "Utf8",
                          value |-> <<Utf8("cat"), <<>>>>]>>
    /\ val.v = <<Utf8("cat"), <<>>>>

\* a string reader runs on a loaded field of a received record's
\* decomposition
MalformedStep ==
    /\ orig.v.kind = "Received" /\ raw.kind = "Raw" /\ raw.schema = "Record"
    /\ last'.op \in {"utf8_array", "utf8_singleton"}
    /\ pre'.args.field \in DOMAIN raw.d.offset_buffers
    => last'.res = "Err"

\* C22: utf8_array and utf8_singleton on a field whose offsets are not
\* increasing or point past the byte buffer, or whose bytes are not UTF-8,
\* return an error; they neither abort nor return strings.
C22_MalformedUtf8 == [][MalformedStep]_vars

\* a primitive reader or loader is instantiated with an element type other
\* than the one the field was pushed with, on a field the decomposition
\* of the caller's own record still holds
TypeStep ==
    /\ OwnRecord
    /\ last'.op \in {"load_primitive", "primitive_singleton", "primitive_array"}
    /\ pre'.args.field \in (DOMAIN raw.d.array_data) \cup (DOMAIN raw.d.buffers)
    /\ \E i \in PushedAt(pre'.args.field) :
          PushedAt(pre'.args.field) = {i} /\ orig.v.pushes[i].t # pre'.args.t
    => last'.res = "Err"

\* C23: load_primitive, primitive_singleton and primitive_array instantiated
\* with an element type different from the one the field was pushed with
\* return an error; they neither abort nor return reinterpreted values.
C23_TypeMismatch == [][TypeStep]_vars

\* C24: reading a field by name returns what was pushed under that name,
\* whatever the position of the push among the pushes of distinct names:
\* the string or the vector of a caller's record, and the Image decoded
\* from a record whose fields come in another order than into_arrow's.
C24_OrderIndependent ==
    /\ /\ orig.v.kind = "Record" /\ raw.kind = "Raw" /\ last.res = "Ok"
       /\ last.op \in {"utf8_singleton", "primitive_array_view", "primitive_array"}
       => \A i \in PushedAt(pre.args.field) :
             PushedAt(pre.args.field) = {i} =>
                /\ last.op = "utf8_singleton" /\ orig.v.pushes[i].kind = "utf_singleton"
                   => val.v = orig.v.pushes[i].value
                /\ last.op # "utf8_singleton" /\ orig.v.pushes[i].kind = "primitive_array"
                   => val.data.ptr = i /\ heap[i] = orig.v.pushes[i].value[1]
    /\ /\ orig.v.kind = "Received" /\ orig.v.wire.schema = "Image"
       /\ orig.v.wire.union_fields[1][2] = "data"
       /\ last.op \in {"from_arrow", "from_raw_data", "view_from_raw_data"}
       /\ last.res = "Ok" /\ conv = <<>>
       => FieldsOf(val, Contents(heap, val))
                = [kind |-> "Image", data |-> <<0, 1, 2, 3, 4, 5>>, width |-> U32(2),
                   height |-> U32(1), encoding |-> "RGB8", name |-> Some(Utf8("cam"))]

\* the string pushed second, under the name "a", has been read by name
C24_Witness ==
    /\ orig.v.kind = "Record" /\ raw.kind = "Raw" /\ last.res = "Ok"
    /\ last.op = "utf8_singleton" /\ pre.args.field = "a"
    /\ Len(orig.v.pushes) = 2
    /\ orig.v.pushes[1].field = "b" /\ orig.v.pushes[1].value = <<Utf8("cat")>>
    /\ orig.v.pushes[2].field = "a" /\ orig.v.pushes[2].value = <<Utf8("cam")>>
    /\ val.v = <<Utf8("cam")>>

PermutedDecoded ==
    /\ orig.v.kind = "Received" /\ orig.v.wire.schema = "Image"
    /\ orig.v.wire.union_fields[1][2] = "data"
    /\ last.op = "from_arrow" /\ last.res = "Ok" /\ val.width = U32(2)

\* C25: a builder that was given the same field name twice yields an
\* error, at one of the pushes or at build, and no wire record.
C25_DuplicateRejected ==
    /\ orig.v.kind = "Record" /\ last.op = "build"
    /\ \E i, j \in DOMAIN orig.v.pushes :
          i # j /\ orig.v.pushes[i].field = orig.v.pushes[j].field
    => last.res = "Err" /\ wire = Nothing

\* the structural invariant of a domain value: the payload lengths agree
\* with the other fields, the image's product taken as a mathematical
\* integer
WellFormed(v, h) ==
    CASE v.kind = "Image" ->
           LET p1 == MulU32(v.width, v.height)
               p2 == MulU32(p1.wrapped, U32(IF v.encoding = "GRAY8" THEN 1 ELSE 3))
           IN  ~p1.overflow /\ ~p2.overflow /\ p2.wrapped = U32(Len(h[v.data.ptr]))
      [] v.kind = "BBox" ->
           /\ Len(h[v.data.ptr]) = 4 * Len(h[v.confidence.ptr])
           /\ Len(v.label) = Len(h[v.confidence.ptr])
      [] v.kind = "LaserScan2D" -> Len(h[v.data.ptr]) = Len(h[v.intensities.ptr])
      [] OTHER -> TRUE

\* C26: a decode, owned or view, of a wire record whose payload length
\* does not match its other fields fails, so every value a decode returns
\* satisfies the structural invariant of a constructed one.
C26_DecodeValidates ==
    /\ last.op \in {"from_arrow", "from_raw_data", "view_from_raw_data", "view_arrow"}
    /\ last.res = "Ok"
    => WellFormed(val, heap)

\* a decoder has returned the received image of 1 x 1 RGB8 pixels with its
\* two bytes of pixel data
MismatchDecoded ==
    /\ orig.v.kind = "Received" /\ last.res = "Ok"
    /\ last.op \in {"from_arrow", "from_raw_data", "view_from_raw_data"}
    /\ val.kind = "Image" /\ val.width = U32(1) /\ Len(heap[val.data.ptr]) = 2

\* into_ndarray has been called on an image that owns its pixels, or
\* from_ndarray on the result of such a call
NdarrayStep ==
    \/ last.op = "into_ndarray" /\ pre.v.data.own
    \/ last.op = "from_ndarray"

\* C27: for every Image built by a constructor, into_ndarray succeeds and
\* from_ndarray of its result succeeds and returns an image with the same
\* width (shape[1]), height (shape[0]), encoding, name and pixels, the
\* pixel buffer being the same allocation through both steps.
C27_NdarrayRoundTrip ==
    NdarrayStep =>
        /\ last.res = "Ok"
        /\ val.data = Owned(pre.v.data.ptr)
        /\ heap[val.data.ptr] = pre.bytes[1]
        /\ val.encoding = pre.v.encoding /\ val.name = pre.v.name
        /\ last.op = "into_ndarray" => val.shape = <<pre.v.height, pre.v.width>>
        /\ last.op = "from_ndarray" =>
              val.height = pre.v.shape[1] /\ val.width = pre.v.shape[2]

\* the same for the images whose data length is their width * height *
\* channels
NdarrayRoundTripExact ==
    /\ NdarrayStep
    /\ last.op = "into_ndarray" =>
          WellFormed(pre.v, [a \in {pre.v.data.ptr} |-> pre.bytes[1]])
    => C27_NdarrayRoundTrip

\* a well-formed image has gone through into_ndarray and from_ndarray
NdarrayRoundTripped ==
    /\ last.op = "from_ndarray" /\ last.res = "Ok"
    /\ Len(heap[val.data.ptr]) = 6 /\ val.width = U32(2)
    /\ val.data = Owned(pre.v.data.ptr)

\* the handle the host holds has been emptied by an ownership-taking call
Consumed == val.kind = "PyImage" /\ val.image = None

\* a method call on the handle: once into_rgb8, into_bgr8 or into_arrow
\* has returned, with a result or with an error, the handle holds None,
\* and a call on a handle that holds None leaves it so and returns an
\* error
HandleStep ==
    (val.kind = "PyImage" /\ vars' # vars) =>
        /\ (last'.op \in TakeMethods
              /\ last'.res \in {"Ok", "Err"}) => Consumed'
        /\ val.image = None => (Consumed' /\ last'.res = "Err")

\* C30: after an ownership-taking call on a binding handle (into_rgb8,
\* into_bgr8, into_arrow), succeeded or failed, the handle holds None in
\* every later state, and every later method call on it returns an error
\* to the host instead of aborting
C30_ConsumedHandle == [][HandleStep]_vars

\* the part of C30 the code keeps: no call puts an image back into a
\* handle that holds None
ConsumedStaysStep == Consumed => (val' = Nothing \/ val'.image = None)

ConsumedStays == [][ConsumedStaysStep]_vars

\* a failed into_rgb8 (on a GRAY8 image) has emptied the handle
FailedTakeConsumed ==
    /\ last.op = "PyImage.into_rgb8" /\ last.res = "Err" /\ Consumed
    /\ pre.args.self.image[1].encoding = "GRAY8"
====
